---- MODULE Spec2Model ----
(***************************************************************************)
(* Collision-detection core of the batched rigid-body physics engine and    *)
(* the ray caster of its batch renderer: broad-phase BVH leaf reservation   *)
(* and overlap traversal, the shared contact buffer of the solver, the      *)
(* narrow-phase dispatch with its sphere handlers, the separating-axis test *)
(* of two hulls and its contact generators, the task graph of the narrow    *)
(* phase, the stack traversal of the top-level QBVH and the view loop of    *)
(* the ray-casting kernel.  Each part of the program is a state machine     *)
(* over its own variables with its own specification (SpecLeaf,             *)
(* SpecContacts, SpecOverlaps, SpecNarrow, SpecSAT, SpecFace, SpecTrace,    *)
(* SpecTasks, SpecRaycast, SpecReduce, SpecEdges, SpecNode, SpecBuilt,      *)
(* SpecURDF, SpecEvents); the variables of the other parts stay at their    *)
(* idle values.  Further parts: the reduction of a face manifold to four    *)
(* points, the distance of two edges, the child words of a BVH node, the    *)
(* link tree of a parsed URDF and the device event log.                     *)
(***************************************************************************)
EXTENDS Integers, Sequences, FiniteSets, TLC

VARIABLES
    \* ---- BVH::reserveLeaf ----
    num_leaves_,            \* std::atomic<int32_t> leaf counter of the BVH
    num_allocated_leaves_,  \* configured leaf capacity of the BVH
    rl_n0,                  \* value of num_leaves_ when the run started
    rl_pc,                  \* per thread: "idle" | "check"
    rl_leaf_idx,            \* per thread: local leaf_idx of the call in flight
    rl_returned,            \* LeafIDs returned so far, in return order
    rl_failed,              \* fetched values of the calls whose assert failed
    rl_started,             \* number of reserveLeaf calls started
    rl_aborted,             \* the process died in an assertion
    \* ---- addContactsToSolver ----
    numContacts,            \* solver_data.numContacts (atomic)
    maxContacts,            \* solver_data.maxContacts
    ac_init,                \* numContacts when the step started
    ac_pc,                  \* per call: "idle" | "check" | "write" | "done" | "dead"
    ac_size,                \* per call: added_contacts.size()
    ac_idx,                 \* per call: local contact_idx
    ac_i,                   \* per call: loop variable i
    ac_writes,              \* per slot of solver_data.contacts: calls that wrote it
    ac_aborted,             \* the process died in an assertion
    \* ---- broad-phase BVH node array and BVH::findOverlaps ----
    nodes_,                 \* node array: index -> Node (children, bounds)
    leaf_entities_,         \* leaf index -> Entity
    bvh_shape,              \* what the build put in each child slot
    bvh_present,            \* number of children the build has stored
    bvh_phase,              \* "build" | "query" | "done"
    fo_aabb,                \* the query AABB
    fo_stack,               \* int32_t stack[128], the first stack_size entries
    fo_node_idx,            \* node visited last
    fo_out,                 \* calls of fn so far: node, slot and entity
    \* ---- runNarrowphase ----
    np_world,               \* per entity: ObjectID, Position, Rotation, Scale
    np_contacts,            \* solver.contacts: slot -> ContactConstraint
    np_events,              \* CollisionEvent temporaries made so far
    np_log,                 \* one record per runNarrowphase call so far
    np_aborted,             \* the process died in an assertion
    \* ---- doSAT and the HullHull case ----
    sat_pc,                 \* "faceA" | "faceB" | "edge" | "contact" |
                            \* "return" | "done" (and "idle")
    sat_faceQueryA,         \* << faceQueryA.separation >>, once evaluated
    sat_faceQueryB,         \* << faceQueryB.separation >>, once evaluated
    sat_edgeQuery,          \* << edgeQuery.separation >>, once evaluated
    sat_manifold,           \* the Manifold doSAT returns
    \* ---- doSAT and doSATPlane on exact hulls ----
    fc_kind,                \* "hulls" | "plane" (and "idle")
    fc_a,                   \* the shape of hull a
    fc_b,                   \* the shape of hull b, or the plane
    fc_garbage,             \* what uninitialised floats hold in this run
    fc_out,                 \* one record per call so far
    \* ---- traceRayTLAS ----
    tr_pc,                  \* "loop" | "children" | "done" | "smashed" |
                            \* "wild" (and "idle")
    tr_world,               \* TraceWorldInfo: nodes and instances
    tr_ray,                 \* TraceInfo as handed over
    tr_stack,               \* int32_t stack[32], the first stack_size entries
    tr_stack_size,          \* stack_size
    tr_node_idx,            \* node_idx of the node being visited
    tr_i,                   \* loop variable i of the loop over the children
    tr_tMax,                \* trace_info.tMax
    tr_hit,                 \* result.hit
    tr_reads,               \* every node_idx read from the node array
    tr_leaves,              \* the leaves handed to a BLAS so far
    tr_pushes,              \* the children pushed so far
    \* ---- narrowphase::setupTasks and the task graph ----
    tg_pc,                  \* "build" | "run" (and "idle")
    tg_graph,               \* the nodes added to the builder so far
    tg_deps,                \* the deps handed to setupTasks
    tg_handle,              \* << NodeID returned by setupTasks >>
    tg_state,               \* per node: "waiting" | "running" | "finished"
    tg_rows,                \* number of CandidateCollision rows of the step
    tg_inv,                 \* per row: "pending" | "running" | "done"
    \* ---- bvhRaycastEntry ----
    re_gridDim,             \* gridDim.x
    re_numViews,            \* bvhParams.internalData->numViews
    re_raycastRGBD,         \* bvhParams.raycastRGBD
    re_pc,                  \* per thread: "loop" | "sync" | "done"
    re_view,                \* per thread: current_view_offset
    re_traced,              \* per thread: the views traced and their results
    re_depthOutput,         \* per byte offset: the floats written there
    re_rgbOutput,           \* per byte offset: the RGBA bytes written there
    \* ---- DeviceTracing::DeviceEventLogging ----
    cur_index_,             \* std::atomic_uint32_t cursor of the log
    device_logs_,           \* per slot: the calls that wrote it, in order
    ev_pc,                  \* per thread: "idle" | "check" | "reset" | "write"
    ev_log_index,           \* per thread: local log_index
    ev_call,                \* per thread: number of the call in flight
    ev_writes               \* the writes so far: slot and call, in order

leafVars == << num_leaves_, num_allocated_leaves_, rl_n0, rl_pc, rl_leaf_idx,
               rl_returned, rl_failed, rl_started, rl_aborted >>
contactVars == << numContacts, maxContacts, ac_init, ac_pc, ac_size, ac_idx,
                  ac_i, ac_writes, ac_aborted >>
bvhVars == << nodes_, leaf_entities_, bvh_shape, bvh_present, bvh_phase, fo_aabb, fo_stack,
              fo_node_idx, fo_out >>
npVars == << np_world, np_contacts, np_events, np_log, np_aborted >>
satVars == << sat_pc, sat_faceQueryA, sat_faceQueryB, sat_edgeQuery,
             sat_manifold >>
fcVars == << fc_kind, fc_a, fc_b, fc_garbage, fc_out >>
\* the parts that never touch the solver or the broad phase
trVars == << tr_pc, tr_world, tr_ray, tr_stack, tr_stack_size, tr_node_idx,
            tr_i, tr_tMax, tr_hit, tr_reads, tr_leaves, tr_pushes >>
tgVars == << tg_pc, tg_graph, tg_deps, tg_handle, tg_state, tg_rows, tg_inv >>
reVars == << re_gridDim, re_numViews, re_raycastRGBD, re_pc, re_view,
            re_traced, re_depthOutput, re_rgbOutput >>
evVars == << cur_index_, device_logs_, ev_pc, ev_log_index, ev_call,
            ev_writes >>
lateVars == << fcVars, trVars, tgVars, reVars, evVars >>
vars == << leafVars, contactVars, bvhVars, npVars, satVars, lateVars >>

\* what an action of one part leaves alone
notLeafVars == << contactVars, bvhVars, npVars, satVars, lateVars >>
notContactVars == << leafVars, bvhVars, npVars, satVars, lateVars >>
notBvhVars == << leafVars, contactVars, npVars, satVars, lateVars >>
\* runNarrowphase adds to the solver's numContacts
notNpVars == << leafVars, bvhVars, maxContacts, ac_init, ac_pc, ac_size, ac_idx,
                ac_i, ac_writes, ac_aborted, satVars, lateVars >>
\* the HullHull case adds to the solver's numContacts and contacts
notSatVars == << leafVars, bvhVars, maxContacts, ac_init, ac_pc, ac_size,
                 ac_idx, ac_i, ac_writes, ac_aborted, np_world, np_events,
                 np_log, np_aborted, lateVars >>
solverVars == << leafVars, contactVars, bvhVars, npVars, satVars >>
notFcVars == << solverVars, trVars, tgVars, reVars, evVars >>
notTrVars == << solverVars, fcVars, tgVars, reVars, evVars >>
notTgVars == << solverVars, fcVars, trVars, reVars, evVars >>
notReVars == << solverVars, fcVars, trVars, tgVars, evVars >>
notEvVars == << solverVars, fcVars, trVars, tgVars, reVars >>

----------------------------------------------------------------------------
(* Machine arithmetic *)

\* largest value of an int32_t
MaxInt32 == 2147483647

\* std::atomic<int32_t>::fetch_add: the value stored by the read-modify-write
\* (the value returned is the one read in the same atomic step); the sum
\* wraps in 32-bit two's complement
FetchAddLost(old, n) == old
FetchAddStore(old, n) ==
    IF old > MaxInt32 - n
      THEN (old - MaxInt32 - 1) + (n - MaxInt32 - 1)
      ELSE old + n

----------------------------------------------------------------------------
(* BVH::reserveLeaf *)

NumThreads == 2
MaxReserveCalls == 4
MaxAllocatedLeaves == 4

Threads == 1..NumThreads

\* assert(leaf_idx < num_allocated_leaves_)
ReserveLeafAssertOffByOne(leaf_idx, allocated) == leaf_idx <= allocated
ReserveLeafAssert(leaf_idx, allocated) == leaf_idx < allocated

LeafIdle ==
    /\ num_leaves_ = 0
    /\ num_allocated_leaves_ = 0
    /\ rl_n0 = 0
    /\ rl_pc = << >>
    /\ rl_leaf_idx = << >>
    /\ rl_returned = << >>
    /\ rl_failed = {}
    /\ rl_started = 0
    /\ rl_aborted = FALSE

LeafInit ==
    /\ num_allocated_leaves_ \in 0..MaxAllocatedLeaves
    /\ num_leaves_ \in 0..num_allocated_leaves_
    /\ rl_n0 = num_leaves_
    /\ rl_pc = [t \in Threads |-> "idle"]
    /\ rl_leaf_idx = [t \in Threads |-> 0]
    /\ rl_returned = << >>
    /\ rl_failed = {}
    /\ rl_started = 0
    /\ rl_aborted = FALSE

\* int32_t leaf_idx = num_leaves_.fetch_add(1, relaxed);
ReserveLeafFetchAdd(t) ==
    /\ ~rl_aborted
    /\ rl_pc[t] = "idle"
    /\ rl_started < MaxReserveCalls
    /\ rl_leaf_idx' = [rl_leaf_idx EXCEPT ![t] = num_leaves_]
    /\ num_leaves_' = FetchAddStore(num_leaves_, 1)
    /\ rl_pc' = [rl_pc EXCEPT ![t] = "check"]
    /\ rl_started' = rl_started + 1
    /\ UNCHANGED << num_allocated_leaves_, rl_n0, rl_returned, rl_failed,
                    rl_aborted >>
    /\ UNCHANGED notLeafVars

\* assert(leaf_idx < num_allocated_leaves_); return LeafID { leaf_idx };
ReserveLeafReturn(t) ==
    /\ ~rl_aborted
    /\ rl_pc[t] = "check"
    /\ IF ReserveLeafAssert(rl_leaf_idx[t], num_allocated_leaves_)
         THEN /\ rl_returned' = Append(rl_returned, rl_leaf_idx[t])
              /\ rl_pc' = [rl_pc EXCEPT ![t] = "idle"]
              /\ UNCHANGED << rl_failed, rl_aborted >>
         ELSE /\ rl_aborted' = TRUE
              /\ rl_failed' = rl_failed \cup {rl_leaf_idx[t]}
              /\ UNCHANGED << rl_returned, rl_pc >>
    /\ UNCHANGED << num_leaves_, num_allocated_leaves_, rl_n0, rl_leaf_idx,
                    rl_started >>
    /\ UNCHANGED notLeafVars

LeafNext ==
    \/ \E t \in Threads : ReserveLeafFetchAdd(t)
    \/ \E t \in Threads : ReserveLeafReturn(t)

----------------------------------------------------------------------------
(* addContactsToSolver *)

NumCalls == 2
MaxSpan == 2
MaxContactsCap == 3

Calls == 1..NumCalls

\* assert(contact_idx < solver_data.maxContacts)
AddContactsAssert(contact_idx, max) == contact_idx < max

RECURSIVE SumSizes(_, _)
SumSizes(size, S) ==
    IF S = {} THEN 0
    ELSE LET c == CHOOSE x \in S : TRUE
         IN size[c] + SumSizes(size, S \ {c})

ContactIdle ==
    /\ numContacts = 0
    /\ maxContacts = 0
    /\ ac_init = 0
    /\ ac_pc = << >>
    /\ ac_size = << >>
    /\ ac_idx = << >>
    /\ ac_i = << >>
    /\ ac_writes = {}
    /\ ac_aborted = FALSE

ContactInit ==
    /\ maxContacts \in 1..MaxContactsCap
    /\ numContacts \in 0..maxContacts
    /\ ac_init = numContacts
    /\ ac_pc = [c \in Calls |-> "idle"]
    /\ ac_size = [c \in Calls |-> 0]
    /\ ac_idx = [c \in Calls |-> 0]
    /\ ac_i = [c \in Calls |-> 0]
    /\ ac_writes = {}
    /\ ac_aborted = FALSE

\* int32_t contact_idx = solver_data.numContacts.fetch_add(
\*     added_contacts.size(), relaxed);
AddContactsFetchAdd(c) ==
    /\ ~ac_aborted
    /\ ac_pc[c] = "idle"
    /\ \E size \in 0..MaxSpan :
        /\ ac_size' = [ac_size EXCEPT ![c] = size]
        /\ numContacts' = FetchAddStore(numContacts, size)
    /\ ac_idx' = [ac_idx EXCEPT ![c] = numContacts]
    /\ ac_pc' = [ac_pc EXCEPT ![c] = "check"]
    /\ UNCHANGED << maxContacts, ac_init, ac_i, ac_writes, ac_aborted >>
    /\ UNCHANGED notContactVars

\* assert(contact_idx < solver_data.maxContacts);
AddContactsCheck(c) ==
    /\ ~ac_aborted
    /\ ac_pc[c] = "check"
    /\ IF AddContactsAssert(ac_idx[c], maxContacts)
         THEN /\ ac_pc' = [ac_pc EXCEPT ![c] = "write"]
              /\ ac_i' = [ac_i EXCEPT ![c] = 0]
              /\ UNCHANGED ac_aborted
         ELSE /\ ac_aborted' = TRUE
              /\ ac_pc' = [ac_pc EXCEPT ![c] = "dead"]
              /\ UNCHANGED ac_i
    /\ UNCHANGED << numContacts, maxContacts, ac_init, ac_size, ac_idx,
                    ac_writes >>
    /\ UNCHANGED notContactVars

\* for (CountT i = 0; i < added_contacts.size(); i++)
\*     solver_data.contacts[contact_idx + i] = added_contacts[i];
\* The buffer holds maxContacts slots: a store past its end is undefined
\* behaviour, which either lands in the memory behind the buffer or kills
\* the process.
AddContactsWrite(c) ==
    /\ ~ac_aborted
    /\ ac_pc[c] = "write"
    /\ IF ac_i[c] < ac_size[c]
         THEN /\ \/ /\ ac_writes' = ac_writes \cup
                          {[slot |-> ac_idx[c] + ac_i[c], call |-> c,
                            i |-> ac_i[c]]}
                    /\ ac_i' = [ac_i EXCEPT ![c] = @ + 1]
                    /\ UNCHANGED ac_aborted
                 \/ /\ ac_idx[c] + ac_i[c] >= maxContacts
                    /\ ac_aborted' = TRUE
                    /\ UNCHANGED << ac_writes, ac_i >>
              /\ UNCHANGED ac_pc
         ELSE /\ ac_pc' = [ac_pc EXCEPT ![c] = "done"]
              /\ UNCHANGED << ac_writes, ac_i, ac_aborted >>
    /\ UNCHANGED << numContacts, maxContacts, ac_init, ac_size, ac_idx >>
    /\ UNCHANGED notContactVars

ContactNext ==
    \/ \E c \in Calls : AddContactsFetchAdd(c)
    \/ \E c \in Calls : AddContactsCheck(c)
    \/ \E c \in Calls : AddContactsWrite(c)

----------------------------------------------------------------------------
(* Broad-phase BVH nodes and BVH::findOverlaps *)

\* children present in the whole node array
MaxPresent == 3
\* children per node
Width == 4

Slots == 0..(Width - 1)

\* A child word is a uint32_t, written here as << bit 31, bits 30..0 >>.
\* static constexpr sentinel_ = 0xFFFFFFFF
sentinel_ == << 1, MaxInt32 >>

\* the 32 bits of an int32_t argument stored into a uint32_t
Bits32(x) == IF x >= 0 THEN << 0, x >> ELSE << 1, x + MaxInt32 + 1 >>

\* children[child] & 0x80000000
IsLeaf(node, child) == node.children[child][1] = 1

\* children[child] & ~0x80000000
LeafIDX(node, child) == node.children[child][2]

\* children[child] = 0x80000000 | idx
SetLeafNoFlag(node, child, idx) ==
    [node EXCEPT !.children[child] = Bits32(idx)]
SetLeaf(node, child, idx) ==
    [node EXCEPT !.children[child] = << 1, Bits32(idx)[2] >>]

\* children[child] = internal_idx
SetInternal(node, child, internal_idx) ==
    [node EXCEPT !.children[child] = Bits32(internal_idx)]

\* children[child] != sentinel_
HasChild(node, child) == node.children[child] # sentinel_

\* children[child] = sentinel_
ClearChild(node, child) == [node EXCEPT !.children[child] = sentinel_]

\* math::AABB::overlaps: the boxes share interior on every axis
Overlaps(a, b) ==
    \A k \in 1..3 : a.pMin[k] < b.pMax[k] /\ b.pMin[k] < a.pMax[k]

\* the AABB findOverlaps forms from the bounds stored for child i
ChildAABBOfSlotZero(node, i) ==
    [pMin |-> << node.minX[0], node.minY[0], node.minZ[0] >>,
     pMax |-> << node.maxX[0], node.maxY[0], node.maxZ[0] >>]
ChildAABB(node, i) ==
    [pMin |-> << node.minX[i], node.minY[i], node.minZ[i] >>,
     pMax |-> << node.maxX[i], node.maxY[i], node.maxZ[i] >>]

SetBounds(node, i, box) ==
    [node EXCEPT !.minX[i] = box.pMin[1], !.minY[i] = box.pMin[2],
                 !.minZ[i] = box.pMin[3], !.maxX[i] = box.pMax[1],
                 !.maxY[i] = box.pMax[2], !.maxZ[i] = box.pMax[3]]

\* a node with no child
EmptyNode ==
    [children |-> [i \in Slots |-> sentinel_],
     minX |-> [i \in Slots |-> 0], minY |-> [i \in Slots |-> 0],
     minZ |-> [i \in Slots |-> 0], maxX |-> [i \in Slots |-> 0],
     maxY |-> [i \in Slots |-> 0], maxZ |-> [i \in Slots |-> 0]]

\* child boxes the build stores, and the queries
Boxes ==
    { [pMin |-> << 0, 0, 0 >>, pMax |-> << 2, 2, 2 >>],
      [pMin |-> << 0, 0, 3 >>, pMax |-> << 2, 2, 5 >>] }
Queries ==
    { [pMin |-> << 1, 1, 1 >>, pMax |-> << 3, 3, 3 >>] }

\* leaf_entities_: two leaves, each its own entity
LeafEntities == [l \in {0, 1} |-> IF l = 0 THEN "e0" ELSE "e1"]

NumNodes == Len(nodes_)
Node(n) == nodes_[n + 1]

BvhIdle ==
    /\ nodes_ = << >>
    /\ leaf_entities_ = << >>
    /\ bvh_shape = << >>
    /\ bvh_present = 0
    /\ bvh_phase = "idle"
    /\ fo_aabb = << >>
    /\ fo_stack = << >>
    /\ fo_node_idx = 0
    /\ fo_out = << >>

\* the root node exists and has no child yet
BvhInit ==
    /\ nodes_ = << EmptyNode >>
    /\ leaf_entities_ = LeafEntities
    /\ bvh_shape = << [i \in Slots |-> [kind |-> "absent", ref |-> 0, box |-> << >>]] >>
    /\ bvh_present = 0
    /\ bvh_phase = "build"
    /\ fo_aabb = << >>
    /\ fo_stack = << >>
    /\ fo_node_idx = 0
    /\ fo_out = << >>

\* the build stores leaf idx with its bounds in an empty child slot
BuildSetLeaf(n, c, idx, box) ==
    /\ bvh_phase = "build"
    /\ bvh_present < MaxPresent
    /\ bvh_present' = bvh_present + 1
    /\ bvh_shape[n + 1][c].kind = "absent"
    /\ nodes_' = [nodes_ EXCEPT ![n + 1] = SetBounds(SetLeaf(@, c, idx), c, box)]
    /\ bvh_shape' = [bvh_shape EXCEPT ![n + 1][c] =
                        [kind |-> "leaf", ref |-> idx, box |-> box]]
    /\ UNCHANGED << leaf_entities_, bvh_phase, fo_aabb, fo_stack, fo_node_idx,
                    fo_out >>
    /\ UNCHANGED notBvhVars

InternalSlots(n) == {c \in Slots : bvh_shape[n + 1][c].kind = "internal"}

MaxOf(S) == CHOOSE x \in S : \A y \in S : y <= x

\* the nodes from the root down the last internal child of each node: the
\* nodes that can take the next node of a depth-first packing
RECURSIVE PackingPath(_)
PackingPath(n) ==
    IF InternalSlots(n) = {} THEN {n}
    ELSE {n} \cup PackingPath(bvh_shape[n + 1][MaxOf(InternalSlots(n))].ref)

\* the build appends a node and stores it, with its bounds, as an internal
\* child in an empty child slot; internal nodes are packed depth-first
BuildSetInternal(n, c, box) ==
    /\ bvh_phase = "build"
    /\ n \in PackingPath(0)
    /\ \A c2 \in InternalSlots(n) : c2 < c
    /\ bvh_present < MaxPresent
    /\ bvh_present' = bvh_present + 1
    /\ bvh_shape[n + 1][c].kind = "absent"
    /\ nodes_' = Append(
          [nodes_ EXCEPT ![n + 1] = SetBounds(SetInternal(@, c, NumNodes), c, box)],
          EmptyNode)
    /\ bvh_shape' = Append(
          [bvh_shape EXCEPT ![n + 1][c] = [kind |-> "internal", ref |-> NumNodes,
                                           box |-> box]],
          [i \in Slots |-> [kind |-> "absent", ref |-> 0, box |-> << >>]])
    /\ UNCHANGED << leaf_entities_, bvh_phase, fo_aabb, fo_stack, fo_node_idx,
                    fo_out >>
    /\ UNCHANGED notBvhVars

\* the build leaves no internal node without a child
BuildFinished ==
    \A n \in 1..(NumNodes - 1) :
        \E c \in Slots : bvh_shape[n + 1][c].kind # "absent"

\* int32_t stack[128]; stack[0] = 0; CountT stack_size = 1;
FindOverlapsBegin(aabb) ==
    /\ bvh_phase = "build"
    /\ BuildFinished
    /\ bvh_phase' = "query"
    /\ fo_aabb' = aabb
    /\ fo_stack' = << 0 >>
    /\ UNCHANGED << nodes_, leaf_entities_, bvh_shape, bvh_present, fo_node_idx,
                    fo_out >>
    /\ UNCHANGED notBvhVars

\* the body of for (int i = 0; i < 4; i++) for child i of the visited node:
\* the calls of fn and the stack after it
VisitChild(n, i, acc) ==
    LET node == Node(n)
    IN  IF ~HasChild(node, i)
          THEN acc
          ELSE IF Overlaps(fo_aabb, ChildAABB(node, i))
                 THEN IF IsLeaf(node, i)
                        THEN [acc EXCEPT !.out = Append(@,
                                [node |-> n, slot |-> i,
                                 e |-> leaf_entities_[LeafIDX(node, i)]])]
                        ELSE [acc EXCEPT !.stack = Append(@, node.children[i][2])]
                 ELSE acc

\* for (int i = 0; i < 4; i++) { ... } from child i on
RECURSIVE VisitChildrenDownwards(_, _, _)
VisitChildrenDownwards(n, i, acc) ==
    IF i >= Width THEN acc
    ELSE VisitChildrenDownwards(n, i + 1, VisitChild(n, Width - 1 - i, acc))

RECURSIVE VisitChildren(_, _, _)
VisitChildren(n, i, acc) ==
    IF i >= Width THEN acc
    ELSE VisitChildren(n, i + 1, VisitChild(n, i, acc))

\* the stack after node_idx = stack[--stack_size]
StackAfterPopKept(stack) == stack
StackAfterPop(stack) == SubSeq(stack, 1, Len(stack) - 1)

\* one pass of while (stack_size > 0): pop a node and loop over its children;
\* the traversal has returned when the stack is empty
FindOverlapsVisit ==
    /\ bvh_phase = "query"
    /\ IF Len(fo_stack) > 0
         THEN LET node_idx == fo_stack[Len(fo_stack)]
                  popped == StackAfterPop(fo_stack)
                  acc == VisitChildren(node_idx, 0,
                                       [out |-> fo_out, stack |-> popped])
              IN  /\ fo_node_idx' = node_idx
                  /\ fo_stack' = acc.stack
                  /\ fo_out' = acc.out
                  /\ UNCHANGED bvh_phase
         ELSE /\ bvh_phase' = "done"
              /\ UNCHANGED << fo_node_idx, fo_stack, fo_out >>
    /\ UNCHANGED << nodes_, leaf_entities_, bvh_shape, bvh_present, fo_aabb >>
    /\ UNCHANGED notBvhVars

BvhNext ==
    \/ \E n \in 0..(NumNodes - 1), c \in Slots, box \in Boxes :
          \E idx \in {(n + c) % 2} : BuildSetLeaf(n, c, idx, box)
    \/ \E n \in 0..(NumNodes - 1), c \in Slots, box \in Boxes :
          BuildSetInternal(n, c, box)
    \/ \E aabb \in Queries : FindOverlapsBegin(aabb)
    \/ FindOverlapsVisit

----------------------------------------------------------------------------
(* Narrow phase: runNarrowphase *)

\* calls of runNarrowphase in one step
MaxRuns == 2

\* enum class CollisionPrimitive::Type : uint32_t
TypeSphere == 1
TypeHull == 2
TypePlane == 4

Types == {TypeSphere, TypeHull, TypePlane}

\* enum class NarrowphaseTest : uint32_t
SphereSphere == 1
HullHull == 2
SphereHull == 3
PlanePlane == 4
SpherePlane == 5
HullPlane == 6

NarrowphaseTests ==
    {SphereSphere, HullHull, SphereHull, PlanePlane, SpherePlane, HullPlane}

\* a | b on uint32_t
RECURSIVE BitOr(_, _)
BitOr(a, b) ==
    IF a = 0 THEN b
    ELSE IF b = 0 THEN a
    ELSE (IF a % 2 = 1 \/ b % 2 = 1 THEN 1 ELSE 0)
            + 2 * BitOr(a \div 2, b \div 2)

(* Vectors are triples of integers.  A quaternion << w, x, y, z >> is stored
   as twice its components, so that the 24 unit quaternions with integer or
   half-integer components are exact. *)
VAdd(u, v) == << u[1] + v[1], u[2] + v[2], u[3] + v[3] >>
VSub(u, v) == << u[1] - v[1], u[2] - v[2], u[3] - v[3] >>
VScale(k, v) == << k * v[1], k * v[2], k * v[3] >>
Dot(u, v) == u[1] * v[1] + u[2] * v[2] + u[3] * v[3]
Cross(u, v) == << u[2] * v[3] - u[3] * v[2],
                  u[3] * v[1] - u[1] * v[3],
                  u[1] * v[2] - u[2] * v[1] >>

\* Quat::rotateVec: v + 2 (w (p x v) + p x (p x v)), p the vector part
RotateVec(q, v) ==
    LET pure == << q[2], q[3], q[4] >>
        pure_x_v == Cross(pure, v)
        pure_x_pure_x_v == Cross(pure, pure_x_v)
        twice == VAdd(VScale(q[1], pure_x_v), pure_x_pure_x_v)
    IN  VAdd(v, << twice[1] \div 2, twice[2] \div 2, twice[3] \div 2 >>)

IsSquare(n) == \E r \in 0..n : r * r = n

\* Vector3::length, for vectors whose length is an integer
Length(v) == CHOOSE r \in 0..Dot(v, v) : r * r = Dot(v, v)

MinOf(S) == CHOOSE x \in S : \A y \in S : x <= y

\* AABB::applyTRS: the AABB of the eight corners after scale, rotation and
\* translation
ApplyTRS(aabb, pos, rot, scale) ==
    LET corners ==
            {VAdd(pos, RotateVec(rot, << scale[1] * x, scale[2] * y,
                                         scale[3] * z >>)) :
                << x, y, z >> \in {aabb.pMin[1], aabb.pMax[1]}
                                \X {aabb.pMin[2], aabb.pMax[2]}
                                \X {aabb.pMin[3], aabb.pMax[3]}}
    IN  [pMin |-> << MinOf({c[1] : c \in corners}),
                     MinOf({c[2] : c \in corners}),
                     MinOf({c[3] : c \in corners}) >>,
         pMax |-> << MaxOf({c[1] : c \in corners}),
                     MaxOf({c[2] : c \in corners}),
                     MaxOf({c[3] : c \in corners}) >>]

\* obj_mgr.primitives and obj_mgr.aabbs: a unit sphere with a tight AABB, a
\* sphere of radius 2 with a loose one, a hull, a plane (the half space
\* below z = 0 of the plane's frame, cut to a box)
ObjectTable ==
    << [type |-> TypeSphere, radius |-> 1,
        aabb |-> [pMin |-> << -1, -1, -1 >>, pMax |-> << 1, 1, 1 >>]],
       [type |-> TypeSphere, radius |-> 2,
        aabb |-> [pMin |-> << -3, -3, -3 >>, pMax |-> << 3, 3, 3 >>]],
       [type |-> TypeHull, radius |-> 0,
        aabb |-> [pMin |-> << -1, -1, -1 >>, pMax |-> << 1, 1, 1 >>]],
       [type |-> TypePlane, radius |-> 0,
        aabb |-> [pMin |-> << -9, -9, -9 >>, pMax |-> << 9, 9, 0 >>]] >>

Entities == {1, 2}

Positions ==
    { << 0, 0, 0 >>, << 1, 0, 0 >>, << 3, 0, 0 >>, << 5, 0, 0 >>,
      << 0, 0, 1 >>, << 0, 0, -1 >>, << 1, 2, 2 >> }

\* identity, half turn about x, third of a turn about (1, 1, 1)
Rotations == { << 2, 0, 0, 0 >>, << 0, 2, 0, 0 >>, << 1, 1, 1, 1 >> }

Scales == { << 1, 1, 1 >> }

\* Swap a & b to be properly ordered based on object type
NeedSwapNever(raw_type_a, raw_type_b) == FALSE
NeedSwap(raw_type_a, raw_type_b) == raw_type_a > raw_type_b

\* the cases of switch (test_type) that are assert(false)
CaseAssertsFalseSphereHullOnly(test_type) == test_type = SphereHull
CaseAssertsFalse(test_type) == test_type \in {SphereHull, PlanePlane}

\* a fraction n / d, d > 0, of a number or of a vector
Frac(n, d) == [n |-> n, d |-> d]

\* float t = plane_normal.dot(a_pos) - d
PlaneDistancePlus(plane_normal, pos, d) == Dot(plane_normal, pos) + d
PlaneDistance(plane_normal, pos, d) == Dot(plane_normal, pos) - d

\* case NarrowphaseTest::SphereSphere: the contacts handed to
\* addContactsToSolver
SphereSphereContacts(a_entity, b_entity, a_prim, b_prim, a_pos, b_pos) ==
    LET a_radius == a_prim.radius
        b_radius == b_prim.radius
        to_b == VSub(b_pos, a_pos)
        dist == Length(to_b)
    IN  IF dist > 0 /\ dist < a_radius + b_radius
          THEN << [ref |-> a_entity, alt |-> b_entity,
                   \* makeVector4(a_pos + mid, dist / 2.f), mid = to_b / 2.f
                   point |-> Frac(VAdd(VScale(2, a_pos), to_b), 2),
                   depth |-> Frac(dist, 2),
                   numPoints |-> 1,
                   \* to_b / dist
                   normal |-> Frac(to_b, dist)] >>
          ELSE << >>

\* case NarrowphaseTest::SpherePlane: the contacts handed to
\* addContactsToSolver
SpherePlaneContacts(a_entity, b_entity, a_prim, a_pos, b_pos, b_rot) ==
    LET base_normal == << 0, 0, 1 >>
        plane_normal == RotateVec(b_rot, base_normal)
        d == Dot(plane_normal, b_pos)
        t == PlaneDistance(plane_normal, a_pos, d)
        penetration == a_prim.radius - t
    IN  IF penetration > 0
          THEN << [ref |-> b_entity, alt |-> a_entity,
                   point |-> Frac(VSub(a_pos, VScale(t, plane_normal)), 1),
                   depth |-> Frac(penetration, 1),
                   numPoints |-> 1,
                   normal |-> Frac(plane_normal, 1)] >>
          ELSE << >>

\* if (!a_world_aabb.overlaps(b_world_aabb)) return;
EarlyAABBExitNever(a_world_aabb, b_world_aabb) == FALSE
EarlyAABBExit(a_world_aabb, b_world_aabb) ==
    ~Overlaps(a_world_aabb, b_world_aabb)

\* doSAT / doSATPlane followed by addManifoldToSolver: the hull geometry is
\* left open here, any manifold may come back
ManifoldContacts(a_entity, b_entity, numContactPoints, aIsReference, normal) ==
    IF numContactPoints > 0
      THEN << [ref |-> IF aIsReference THEN a_entity ELSE b_entity,
               alt |-> IF aIsReference THEN b_entity ELSE a_entity,
               point |-> Frac(<< 0, 0, 0 >>, 1),
               depth |-> Frac(0, 1),
               numPoints |-> numContactPoints,
               normal |-> Frac(normal, 1)] >>
      ELSE << >>

\* createFaceContactPlane hands a_is_ref = false to buildFaceContactManifold:
\* the hull (a) is never the reference of a Hull-Plane manifold
PlaneManifoldAIsRefTrue == TRUE
PlaneManifoldAIsRef == FALSE

\* case NarrowphaseTest::HullPlane: doSATPlane on the plane
\* { b_rot.rotateVec(base_normal), dot(plane_normal, b_pos) } with the world
\* frame {1, 0, 0, 0}, then addManifoldToSolver when numContactPoints > 0;
\* the hull geometry is left open, it decides the number of points only
\* (none when the plane separates, else one to four)
HullPlanePointCounts == {0, 1, 4}

HullPlaneManifolds(a_entity, b_entity, b_rot) ==
    LET base_normal == << 0, 0, 1 >>
        plane_normal == RotateVec(b_rot, base_normal)
    IN  {ManifoldContacts(a_entity, b_entity, n, PlaneManifoldAIsRef,
                          plane_normal) : n \in HullPlanePointCounts}

NpIdle ==
    /\ np_world = << >>
    /\ np_contacts = << >>
    /\ np_events = << >>
    /\ np_log = << >>
    /\ np_aborted = FALSE

\* two entities with any object, position, rotation and scale (the entity
\* with the lower ObjectID first: candidates come in both orders); the
\* distance of two spheres is an integer
NpInit ==
    /\ np_world \in [Entities ->
          [obj : DOMAIN ObjectTable, pos : Positions, rot : Rotations,
           scale : Scales]]
    /\ np_world[1].obj <= np_world[2].obj
    /\ ( /\ ObjectTable[np_world[1].obj].type = TypeSphere
         /\ ObjectTable[np_world[2].obj].type = TypeSphere )
       => IsSquare(Dot(VSub(np_world[1].pos, np_world[2].pos),
                       VSub(np_world[1].pos, np_world[2].pos)))
    /\ np_contacts = << >>
    /\ np_events = << >>
    /\ np_log = << >>
    /\ np_aborted = FALSE

\* the solver of a step that receives the contacts: room for one contact per
\* call
NpSolverInit ==
    /\ numContacts = 0
    /\ maxContacts = MaxRuns
    /\ ac_init = 0
    /\ ac_pc = << >>
    /\ ac_size = << >>
    /\ ac_idx = << >>
    /\ ac_i = << >>
    /\ ac_writes = {}
    /\ ac_aborted = FALSE

\* the manifolds a hull case may get back
HullManifolds(a_entity, b_entity) ==
    {ManifoldContacts(a_entity, b_entity, n, r, << 0, 0, 0 >>) :
        << n, r >> \in {<< 0, TRUE >>, << 4, TRUE >>, << 4, FALSE >>}}

\* runNarrowphase(ctx, candidate_collision) with candidate_collision.a = ca
\* and candidate_collision.b = cb
RunNarrowphase(ca, cb) ==
    /\ ca # cb
    /\ ~np_aborted
    /\ Len(np_log) < MaxRuns
    /\ LET swap == NeedSwap(ObjectTable[np_world[ca].obj].type,
                            ObjectTable[np_world[cb].obj].type)
           a_entity == IF swap THEN cb ELSE ca
           b_entity == IF swap THEN ca ELSE cb
           a_prim == ObjectTable[np_world[a_entity].obj]
           b_prim == ObjectTable[np_world[b_entity].obj]
           raw_type_a == a_prim.type
           raw_type_b == b_prim.type
           a_pos == np_world[a_entity].pos
           b_pos == np_world[b_entity].pos
           a_rot == np_world[a_entity].rot
           b_rot == np_world[b_entity].rot
           a_world_aabb == ApplyTRS(a_prim.aabb, a_pos, a_rot,
                                    np_world[a_entity].scale)
           b_world_aabb == ApplyTRS(b_prim.aabb, b_pos, b_rot,
                                    np_world[b_entity].scale)
           test_type == BitOr(raw_type_a, raw_type_b)
           entry == [ca |-> ca, cb |-> cb, a |-> a_entity, b |-> b_entity,
                     raw_type_a |-> raw_type_a, raw_type_b |-> raw_type_b]
       IN  IF EarlyAABBExit(a_world_aabb, b_world_aabb)
             THEN \* Early AABB exit
                  /\ np_log' = Append(np_log,
                        entry @@ [test |-> 0, outcome |-> "early",
                                  added |-> << >>])
                  /\ UNCHANGED << np_contacts, np_events, np_aborted,
                                  numContacts >>
             ELSE IF test_type \notin NarrowphaseTests
             THEN \* default: __builtin_unreachable()
                  /\ np_log' = Append(np_log,
                        entry @@ [test |-> test_type,
                                  outcome |-> "unreachable",
                                  added |-> << >>])
                  /\ np_aborted' = TRUE
                  /\ UNCHANGED << np_contacts, np_events, numContacts >>
             ELSE IF CaseAssertsFalse(test_type)
             THEN /\ np_log' = Append(np_log,
                        entry @@ [test |-> test_type, outcome |-> "abort",
                                  added |-> << >>])
                  /\ np_aborted' = TRUE
                  /\ UNCHANGED << np_contacts, np_events, numContacts >>
             ELSE \E added \in
                        CASE test_type = SphereSphere ->
                               {SphereSphereContacts(a_entity, b_entity,
                                   a_prim, b_prim, a_pos, b_pos)}
                          [] test_type = SpherePlane ->
                               {SpherePlaneContacts(a_entity, b_entity, a_prim,
                                   a_pos, b_pos, b_rot)}
                          [] test_type = HullHull ->
                               HullManifolds(a_entity, b_entity)
                          [] test_type = HullPlane ->
                               HullPlaneManifolds(a_entity, b_entity, b_rot)
                          \* a case that only asserts breaks with no contact
                          [] OTHER -> {<< >>} :
                      IF added = << >>
                        THEN /\ np_log' = Append(np_log,
                                   entry @@ [test |-> test_type,
                                             outcome |-> "ok",
                                             added |-> added])
                             /\ UNCHANGED << np_contacts, np_events,
                                             np_aborted, numContacts >>
                        ELSE \* addContactsToSolver with a span of one contact
                             /\ numContacts' =
                                   FetchAddStore(numContacts, Len(added))
                             /\ IF AddContactsAssert(numContacts, maxContacts)
                                  THEN /\ np_contacts' = np_contacts @@
                                             (numContacts :> added[1])
                                       /\ np_events' =
                                             IF test_type = SphereSphere
                                               THEN Append(np_events,
                                                      [a |-> ca, b |-> cb])
                                               ELSE np_events
                                       /\ np_log' = Append(np_log,
                                             entry @@ [test |-> test_type,
                                                       outcome |-> "ok",
                                                       added |-> added])
                                       /\ UNCHANGED np_aborted
                                  ELSE /\ np_aborted' = TRUE
                                       /\ np_log' = Append(np_log,
                                             entry @@ [test |-> test_type,
                                                       outcome |-> "overflow",
                                                       added |-> << >>])
                                       /\ UNCHANGED << np_contacts,
                                                       np_events >>
    /\ UNCHANGED np_world
    /\ UNCHANGED notNpVars

NpNext ==
    \E ca, cb \in Entities : RunNarrowphase(ca, cb)

----------------------------------------------------------------------------
(* doSAT: the order of the three queries and the choice of the contact *)

\* -FLT_MAX, what queryEdgeDirections returns when no pair of edges builds a
\* Minkowski face
NegFltMax == -1000

\* separations the queries may return: penetrating, touching, separated
Separations == {-2, -1, 0, 1}
EdgeSeparations == Separations \union {NegFltMax}

\* queryFaceDirections returns -FLT_MAX as well, for a hull without a face
FaceSeparations == Separations \union {NegFltMax}

\* numbers of vertices the clipping of a face contact may leave
FaceContactCounts == {0, 2, 4}

\* a query that was not evaluated
NotEvaluated == << >>

\* the test after each query: if (query.separation > 0.0f) return manifold
SeparatingAxisOrTouching(separation) == separation >= 0
SeparatingAxis(separation) == separation > 0

\* bIsFaceContactA || bIsFaceContactB
IsFaceContactOnTie(faceA, faceB, edge) == faceA >= edge \/ faceB >= edge
IsFaceContact(faceA, faceB, edge) == faceA > edge \/ faceB > edge

\* createFaceContact: a_is_ref
AIsRef(faceA, faceB) == faceA > faceB

\* Manifold manifold; manifold.numContactPoints = 0
EmptyManifold ==
    [numContactPoints |-> 0, aIsReference |-> FALSE, kind |-> "none"]

\* createEdgeContact: one point, aIsReference = true
EdgeManifold ==
    [numContactPoints |-> 1, aIsReference |-> TRUE, kind |-> "edge"]

\* createFaceContact: the reference side and the number of clipped vertices
FaceManifold(faceA, faceB, num_clipped_vertices) ==
    [numContactPoints |-> num_clipped_vertices,
     aIsReference |-> AIsRef(faceA, faceB), kind |-> "face"]

SatIdle ==
    /\ sat_pc = "idle"
    /\ sat_faceQueryA = NotEvaluated
    /\ sat_faceQueryB = NotEvaluated
    /\ sat_edgeQuery = NotEvaluated
    /\ sat_manifold = EmptyManifold

\* entry of doSAT(a, b, ...) from the HullHull case
SatInit ==
    /\ sat_pc = "faceA"
    /\ sat_faceQueryA = NotEvaluated
    /\ sat_faceQueryB = NotEvaluated
    /\ sat_edgeQuery = NotEvaluated
    /\ sat_manifold = EmptyManifold
    /\ np_world = << >>
    /\ np_contacts = << >>
    /\ np_events = << >>
    /\ np_log = << >>
    /\ np_aborted = FALSE

\* FaceQuery faceQueryA = queryFaceDirections(a, b) and the test after it
SatFaceQueryA(separation) ==
    /\ sat_pc = "faceA"
    /\ sat_faceQueryA' = << separation >>
    /\ sat_pc' = IF SeparatingAxis(separation) THEN "return" ELSE "faceB"
    /\ UNCHANGED << sat_faceQueryB, sat_edgeQuery, sat_manifold, numContacts,
                    np_contacts >>
    /\ UNCHANGED notSatVars

\* FaceQuery faceQueryB = queryFaceDirections(b, a) and the test after it
SatFaceQueryB(separation) ==
    /\ sat_pc = "faceB"
    /\ sat_faceQueryB' = << separation >>
    /\ sat_pc' = IF SeparatingAxis(separation) THEN "return" ELSE "edge"
    /\ UNCHANGED << sat_faceQueryA, sat_edgeQuery, sat_manifold, numContacts,
                    np_contacts >>
    /\ UNCHANGED notSatVars

\* EdgeQuery edgeQuery = queryEdgeDirections(a, b) and the test after it
SatEdgeQuery(separation) ==
    /\ sat_pc = "edge"
    /\ sat_edgeQuery' = << separation >>
    /\ sat_pc' = IF SeparatingAxis(separation) THEN "return" ELSE "contact"
    /\ UNCHANGED << sat_faceQueryA, sat_faceQueryB, sat_manifold, numContacts,
                    np_contacts >>
    /\ UNCHANGED notSatVars

\* the face contact or the edge contact
SatCreateContact(num_clipped_vertices) ==
    /\ sat_pc = "contact"
    /\ IF IsFaceContact(sat_faceQueryA[1], sat_faceQueryB[1],
                          sat_edgeQuery[1])
         THEN sat_manifold' = FaceManifold(sat_faceQueryA[1], sat_faceQueryB[1],
                                           num_clipped_vertices)
         ELSE /\ num_clipped_vertices = 0
              /\ sat_manifold' = EdgeManifold
    /\ sat_pc' = "return"
    /\ UNCHANGED << sat_faceQueryA, sat_faceQueryB, sat_edgeQuery, numContacts,
                    np_contacts >>
    /\ UNCHANGED notSatVars

\* back in the HullHull case: if (manifold.numContactPoints > 0)
\* addManifoldToSolver(solver, manifold, a_entity, b_entity), with a_entity =
\* 1 and b_entity = 2
SatAddManifold ==
    /\ sat_pc = "return"
    /\ LET added == ManifoldContacts(1, 2, sat_manifold.numContactPoints,
                                     sat_manifold.aIsReference,
                                     << 0, 0, 0 >>)
       IN  IF added = << >>
             THEN UNCHANGED << numContacts, np_contacts >>
             ELSE /\ numContacts' = FetchAddStore(numContacts, Len(added))
                  /\ np_contacts' = np_contacts @@ (numContacts :> added[1])
    /\ sat_pc' = "done"
    /\ UNCHANGED << sat_faceQueryA, sat_faceQueryB, sat_edgeQuery,
                    sat_manifold >>
    /\ UNCHANGED notSatVars

SatNext ==
    \/ \E separation \in FaceSeparations : SatFaceQueryA(separation)
    \/ \E separation \in FaceSeparations : SatFaceQueryB(separation)
    \/ \E separation \in EdgeSeparations : SatEdgeQuery(separation)
    \/ \E num_clipped_vertices \in FaceContactCounts :
          SatCreateContact(num_clipped_vertices)
    \/ SatAddManifold

----------------------------------------------------------------------------
(* The face queries and the two face-contact generators, on hulls and       *)
(* planes with exact coordinates.  A HullState is given in world space      *)
(* (what makeHullState leaves in tmp_vertices and tmp_faces); the half-edge *)
(* loop of a face is the sequence of its root vertices.  Face normals of a  *)
(* hull are stored multiplied by the hull's normalScale, the normal and d   *)
(* of the plane of the HullPlane case multiplied by PlaneScale, so that     *)
(* every number is an integer.                                              *)

Abs(x) == IF x < 0 THEN -x ELSE x
Negate(v) == << -v[1], -v[2], -v[3] >>

\* n / d for a quotient the code computes in floats and that is exact here
ExactDiv(n, d) == IF d < 0 THEN (-n) \div (-d) ELSE n \div d

\* vertex i of the box [lo, hi]: bit 0 of i - 1 picks x, bit 1 y, bit 2 z
BoxVertex(lo, hi, i) ==
    << IF (i - 1) % 2 = 1 THEN hi[1] ELSE lo[1],
       IF ((i - 1) \div 2) % 2 = 1 THEN hi[2] ELSE lo[2],
       IF ((i - 1) \div 4) % 2 = 1 THEN hi[3] ELSE lo[3] >>

\* the half-edge mesh of a box in world space: faces +x -x +y -y +z -z, each
\* loop counter-clockwise seen from outside
BoxHull(lo, hi) ==
    [vertices |-> [i \in 1..8 |-> BoxVertex(lo, hi, i)],
     facePlanes |-> << [normal |-> << 1, 0, 0 >>, d |-> hi[1]],
                       [normal |-> << -1, 0, 0 >>, d |-> -lo[1]],
                       [normal |-> << 0, 1, 0 >>, d |-> hi[2]],
                       [normal |-> << 0, -1, 0 >>, d |-> -lo[2]],
                       [normal |-> << 0, 0, 1 >>, d |-> hi[3]],
                       [normal |-> << 0, 0, -1 >>, d |-> -lo[3]] >>,
     faceLoops |-> << << 2, 4, 8, 6 >>, << 1, 5, 7, 3 >>, << 3, 7, 8, 4 >>,
                      << 1, 2, 6, 5 >>, << 5, 6, 8, 7 >>, << 1, 3, 4, 2 >> >>,
     normalScale |-> 1,
     center |-> << (lo[1] + hi[1]) \div 2, (lo[2] + hi[2]) \div 2,
                   (lo[3] + hi[3]) \div 2 >>]

\* the corners of a hexagon whose six sides have length 5 or 4
HexCorners ==
    << << 5, 0 >>, << 2, 4 >>, << -2, 4 >>, << -5, 0 >>, << -2, -4 >>,
       << 2, -4 >> >>

\* the half-edge mesh of the prism over that hexagon between z = zlo and
\* z = zhi: the six sides, then the bottom and the top; normals times 5
HexPrismHull(zlo, zhi) ==
    [vertices |-> [i \in 1..12 |->
                     << HexCorners[((i - 1) % 6) + 1][1],
                        HexCorners[((i - 1) % 6) + 1][2],
                        IF i <= 6 THEN zlo ELSE zhi >>],
     facePlanes |-> << [normal |-> << 4, 3, 0 >>, d |-> 20],
                       [normal |-> << 0, 5, 0 >>, d |-> 20],
                       [normal |-> << -4, 3, 0 >>, d |-> 20],
                       [normal |-> << -4, -3, 0 >>, d |-> 20],
                       [normal |-> << 0, -5, 0 >>, d |-> 20],
                       [normal |-> << 4, -3, 0 >>, d |-> 20],
                       [normal |-> << 0, 0, -5 >>, d |-> -5 * zlo],
                       [normal |-> << 0, 0, 5 >>, d |-> 5 * zhi] >>,
     faceLoops |-> << << 1, 2, 8, 7 >>, << 2, 3, 9, 8 >>, << 3, 4, 10, 9 >>,
                      << 4, 5, 11, 10 >>, << 5, 6, 12, 11 >>,
                      << 6, 1, 7, 12 >>, << 1, 6, 5, 4, 3, 2 >>,
                      << 7, 8, 9, 10, 11, 12 >> >>,
     normalScale |-> 5,
     center |-> << 0, 0, (zlo + zhi) \div 2 >>]

\* getDistanceFromPlane: a.dot(plane.normal) - plane.d
GetDistanceFromPlane(plane, a) == Dot(a, plane.normal) - plane.d

\* planeIntersection: p1 + (p2 - p1) * (-distance / plane.normal.dot(p2 - p1))
PlaneIntersection(plane, p1, p2) ==
    LET distance == GetDistanceFromPlane(plane, p1)
        den == Dot(plane.normal, VSub(p2, p1))
        step == VScale(-distance, VSub(p2, p1))
    IN  VAdd(p1, << ExactDiv(step[1], den), ExactDiv(step[2], den),
                    ExactDiv(step[3], den) >>)

RECURSIVE FurthestFrom(_, _, _, _)
FurthestFrom(h, d, i, furthest) ==
    IF i > Len(h.vertices) THEN furthest
    ELSE FurthestFrom(h, d, i + 1,
            IF Dot(d, h.vertices[i]) > Dot(d, furthest)
              THEN h.vertices[i] ELSE furthest)

\* findFurthestPoint: the first vertex with the largest d.dot(vertex)
FindFurthestPoint(h, d) == FurthestFrom(h, d, 2, h.vertices[1])

\* queryFaceDirectionsPlane
QueryFaceDirectionsPlane(plane, h) ==
    [separation |->
        GetDistanceFromPlane(plane, FindFurthestPoint(h, Negate(plane.normal))),
     faceIdx |-> 0]

RECURSIVE FaceDirections(_, _, _, _)
FaceDirections(a, b, i, best) ==
    IF i > Len(a.facePlanes) THEN best
    ELSE LET plane == a.facePlanes[i]
             supportB == FindFurthestPoint(b, Negate(plane.normal))
             distance == GetDistanceFromPlane(plane, supportB)
         IN  FaceDirections(a, b, i + 1,
                IF distance > best.separation
                  THEN [separation |-> distance, faceIdx |-> i]
                  ELSE best)

\* queryFaceDirections: the first face of a with the largest distance to the
\* support point of b (both hulls with normalScale 1)
QueryFaceDirections(a, b) ==
    FaceDirections(a, b, 1, [separation |-> NegFltMax, faceIdx |-> 1])

\* isMinkowskiFace
IsMinkowskiFace(a, b, c, d) ==
    LET bxa == Cross(b, a)
        dxc == Cross(d, c)
        cba == Dot(c, bxa)
        dba == Dot(d, bxa)
        adc == Dot(a, dxc)
        bdc == Dot(b, dxc)
    IN  cba * dba < 0 /\ adc * bdc < 0 /\ cba * bdc > 0

\* edgeIndices: one half edge per edge, as << face, position in its loop >>
HullEdges(h) ==
    LET pairs == {<< f, j >> \in (1..Len(h.faceLoops)) \X (1..6) :
                     /\ j <= Len(h.faceLoops[f])
                     /\ h.faceLoops[f][j] <
                           h.faceLoops[f][(j % Len(h.faceLoops[f])) + 1]}
    IN  pairs

\* root vertex of a half edge and of its next
EdgeRoot(h, e) == h.faceLoops[e[1]][e[2]]
EdgeTip(h, e) == h.faceLoops[e[1]][(e[2] % Len(h.faceLoops[e[1]])) + 1]

\* the polygon of the twin of a half edge
TwinPolygon(h, e) ==
    CHOOSE g \in 1..Len(h.faceLoops) :
        /\ g # e[1]
        /\ \E j \in 1..Len(h.faceLoops[g]) :
              /\ h.faceLoops[g][j] = EdgeTip(h, e)
              /\ h.faceLoops[g][(j % Len(h.faceLoops[g])) + 1] = EdgeRoot(h, e)

\* getEdgeSegment
GetEdgeSegment(h, e) ==
    [p1 |-> h.vertices[EdgeRoot(h, e)], p2 |-> h.vertices[EdgeTip(h, e)]]

\* buildsMinkowskiFace
BuildsMinkowskiFace(a, b, edgeA, edgeB) ==
    IsMinkowskiFace(a.facePlanes[edgeA[1]].normal,
                    a.facePlanes[TwinPolygon(a, edgeA)].normal,
                    Negate(b.facePlanes[edgeB[1]].normal),
                    Negate(b.facePlanes[TwinPolygon(b, edgeB)].normal))

\* areParallel, called with the two edge vectors as they are
AreParallel(a, b) == Abs(Dot(a, b)) = 1

\* edgeDistance: the axis dir_a x dir_b, turned away from a's centre, and the
\* separation along it.  The normalisation of a zero cross product divides
\* zero by zero: the normal and the separation are then NaN (nan).
EdgeDistance(a, b, edgeA, edgeB) ==
    LET segment_a == GetEdgeSegment(a, edgeA)
        segment_b == GetEdgeSegment(b, edgeB)
        dir_a == VSub(segment_a.p2, segment_a.p1)
        dir_b == VSub(segment_b.p2, segment_b.p1)
        crossed == Cross(dir_a, dir_b)
        len == Length(crossed)
        unit == << ExactDiv(crossed[1], len), ExactDiv(crossed[2], len),
                   ExactDiv(crossed[3], len) >>
        normal == IF Dot(unit, VSub(segment_a.p1, a.center)) < 0
                    THEN Negate(unit) ELSE unit
    IN  IF AreParallel(dir_a, dir_b)
          THEN [normal |-> << 0, 0, 0 >>, separation |-> NegFltMax,
                nan |-> FALSE]
          ELSE IF crossed = << 0, 0, 0 >>
          THEN [normal |-> << 0, 0, 0 >>, separation |-> 0, nan |-> TRUE]
          ELSE [normal |-> normal,
                separation |-> Dot(normal, VSub(segment_b.p1, segment_a.p1)),
                nan |-> FALSE]

\* position of a pair of edges in the two nested loops
EdgeOrder(q) ==
    ((q.edgeIdxA[1] * 8 + q.edgeIdxA[2]) * 64 + q.edgeIdxB[1]) * 8
        + q.edgeIdxB[2]

\* queryEdgeDirections: the first pair with the largest separation over the
\* pairs of edges that build a Minkowski face, -FLT_MAX when there is none;
\* a NaN separation is greater than nothing
QueryEdgeDirections(a, b) ==
    LET cands == {[separation |-> EdgeDistance(a, b, ea, eb).separation,
                   normal |-> EdgeDistance(a, b, ea, eb).normal,
                   edgeIdxA |-> ea, edgeIdxB |-> eb] :
                    << ea, eb >> \in
                       {p \in HullEdges(a) \X HullEdges(b) :
                           /\ BuildsMinkowskiFace(a, b, p[1], p[2])
                           /\ ~EdgeDistance(a, b, p[1], p[2]).nan}}
    IN  IF cands = {}
          THEN [separation |-> NegFltMax, normal |-> << 0, 0, 0 >>,
                edgeIdxA |-> << 1, 1 >>, edgeIdxB |-> << 1, 1 >>]
          ELSE CHOOSE q \in cands : \A r \in cands :
                  \/ q.separation > r.separation
                  \/ /\ q.separation = r.separation
                     /\ EdgeOrder(q) <= EdgeOrder(r)

RECURSIVE IncidentFace(_, _, _, _)
IncidentFace(h, ref_normal, i, minimizing_face) ==
    IF i > Len(h.facePlanes) THEN minimizing_face
    ELSE IncidentFace(h, ref_normal, i + 1,
            IF Dot(h.facePlanes[i].normal, ref_normal) <
                  Dot(h.facePlanes[minimizing_face].normal, ref_normal)
              THEN i ELSE minimizing_face)

\* findIncidentFace: the first face whose normal has the smallest dot
\* product with ref_normal
FindIncidentFace(h, ref_normal) == IncidentFace(h, ref_normal, 2, 1)

\* an uninitialised Vector3 whose three floats hold g
GarbageVec(g) == << g, g, g >>

RECURSIVE ClipLoop(_, _, _, _, _, _)
ClipLoop(clipping_plane, input_vertices, i, v1, d1, dst_vertices) ==
    IF i > Len(input_vertices) THEN dst_vertices
    ELSE LET v2 == input_vertices[i]
             d2 == GetDistanceFromPlane(clipping_plane, v2)
             kept ==
                IF d1 <= 0 /\ d2 <= 0
                  THEN << v2 >>
                ELSE IF d1 <= 0 /\ d2 > 0
                  THEN << PlaneIntersection(clipping_plane, v1, v2) >>
                ELSE IF d2 <= 0 /\ d1 > 0
                  THEN << PlaneIntersection(clipping_plane, v1, v2), v2 >>
                ELSE << >>
         IN  ClipLoop(clipping_plane, input_vertices, i + 1, v2, d2,
                      dst_vertices \o kept)

\* clipPolygon: the vertices written to dst_vertices
ClipPolygon(clipping_plane, input_vertices) ==
    IF input_vertices = << >> THEN << >>
    ELSE LET v1 == input_vertices[Len(input_vertices)]
         IN  ClipLoop(clipping_plane, input_vertices, 1, v1,
                      GetDistanceFromPlane(clipping_plane, v1), << >>)

\* Vector3::distance2
Distance2(u, v) == Dot(VSub(u, v), VSub(u, v))

RECURSIVE FurthestContact(_, _, _, _, _)
\* first loop of the reduction to four points: the contact furthest from
\* point0
FurthestContact(contacts, penetration_depths, point0, i, acc) ==
    IF i > Len(contacts) THEN acc
    ELSE LET d2 == Distance2(point0, contacts[i])
         IN  FurthestContact(contacts, penetration_depths, point0, i + 1,
                IF d2 > acc.largestD2
                  THEN [largestD2 |-> d2, point |-> contacts[i],
                        depth |-> penetration_depths[i], idx |-> i]
                  ELSE acc)

RECURSIVE LastWithArea(_, _, _, _, _, _, _, _)
\* second and third loop: the last contact whose triangle with point0 and
\* the furthest contact has area > largestArea (sign = 1) or < largestArea
\* (sign = -1); largestArea stays 0.0f
LastWithArea(contact_normal, contacts, penetration_depths, point0, diff0, sign, i, acc) ==
    IF i > Len(contacts) THEN acc
    ELSE LET diff1 == VSub(contacts[i], point0)
             area == Dot(contact_normal, Cross(diff0, diff1))
         IN  LastWithArea(contact_normal, contacts, penetration_depths,
                point0, diff0, sign, i + 1,
                IF sign * area > 0
                  THEN [point |-> contacts[i],
                        depth |-> penetration_depths[i], idx |-> i]
                  ELSE acc)

\* buildFaceContactManifold with world_offset {0, 0, 0} and to_world_frame
\* {1, 0, 0, 0}; contacts and penetration_depths are the first num_contacts
\* entries of the two arrays; g is what the floats the function never writes
\* hold
BuildFaceContactManifold(contact_normal, contacts, penetration_depths, a_is_ref, g) ==
    LET num_contacts == Len(contacts)
        point0 == contacts[1]
        far == FurthestContact(contacts, penetration_depths, point0, 2,
                  [largestD2 |-> 0, point |-> GarbageVec(g), depth |-> g,
                   idx |-> 1])
        contacts2 == [contacts EXCEPT ![far.idx] = point0]
        diff0 == VSub(far.point, point0)
        third == LastWithArea(contact_normal, contacts2, penetration_depths,
                    point0, diff0, 1, 2,
                    [point |-> GarbageVec(g), depth |-> g, idx |-> 1])
        contacts3 == [contacts2 EXCEPT ![third.idx] = point0]
        fourth == LastWithArea(contact_normal, contacts3, penetration_depths,
                     point0, diff0, -1, 2,
                     [point |-> GarbageVec(g), depth |-> g, idx |-> 1])
        points == IF num_contacts <= 4
                    THEN [i \in 1..4 |-> IF i <= num_contacts THEN contacts[i]
                                         ELSE GarbageVec(g)]
                    ELSE << point0, far.point, third.point, fourth.point >>
        depths == IF num_contacts <= 4
                    THEN [i \in 1..4 |-> IF i <= num_contacts
                                           THEN penetration_depths[i] ELSE g]
                    ELSE << penetration_depths[1], far.depth, third.depth,
                            fourth.depth >>
    IN  [numContactPoints |-> IF num_contacts <= 4 THEN num_contacts ELSE 4,
         contactPoints |->
            [i \in 1..4 |-> VAdd(RotateVec(<< 2, 0, 0, 0 >>, points[i]),
                                 << 0, 0, 0 >>)],
         penetrationDepths |-> depths,
         normal |-> RotateVec(<< 2, 0, 0, 0 >>, contact_normal),
         aIsReference |-> a_is_ref]

\* the floats of an array of Planes: normal.x, normal.y, normal.z, d
PlaneFloats(facePlanes) ==
    [k \in 0..(4 * Len(facePlanes) - 1) |->
        IF k % 4 = 3 THEN facePlanes[(k \div 4) + 1].d
        ELSE facePlanes[(k \div 4) + 1].normal[(k % 4) + 1]]

\* a float of a buffer; past the initialised part it holds g
FloatAt(mem, k, g) == IF k \in DOMAIN mem THEN mem[k] ELSE g

\* element i of a Vector3 array that starts at float base
ReadVec(mem, base, i, g) ==
    << FloatAt(mem, base + 3 * i, g), FloatAt(mem, base + 3 * i + 1, g),
       FloatAt(mem, base + 3 * i + 2, g) >>

\* the buffer after storing the Vector3s vs from float base on
WriteVecs(mem, base, vs) ==
    [k \in DOMAIN mem \union (base..(base + 3 * Len(vs) - 1)) |->
        IF k >= base /\ k < base + 3 * Len(vs)
          THEN vs[((k - base) \div 3) + 1][((k - base) % 3) + 1]
          ELSE mem[k]]

\* fixed-point unit of the plane of the HullPlane case: its normal and d are
\* stored times PlaneScale
PlaneScale == 5

\* what uninitialised floats may hold
GarbageFloats == {-3, 7}

\* a Manifold whose contact slots were never written
NoContactManifold(g) ==
    [numContactPoints |-> 0,
     contactPoints |-> [i \in 1..4 |-> GarbageVec(g)],
     penetrationDepths |-> [i \in 1..4 |-> g],
     normal |-> GarbageVec(g),
     aIsReference |-> FALSE]

\* the records kept of one call: the manifold, the queries that were run,
\* and the two arrays as they were handed to buildFaceContactManifold
\* (clipped: the vertices before the filter, with their signed distances)
Outcome(manifold, kind, faceQueryA, faceQueryB, edgeQuery, clipped, distances, contacts, penetration_depths, ref_plane, scales) ==
    [manifold |-> manifold, kind |-> kind, faceQueryA |-> faceQueryA,
     faceQueryB |-> faceQueryB, edgeQuery |-> edgeQuery,
     clipped |-> clipped, distances |-> distances, contacts |-> contacts,
     penetration_depths |-> penetration_depths, ref_plane |-> ref_plane,
     pointDen |-> scales[1], depthDen |-> scales[2]]

NoPlane == [normal |-> << 0, 0, 0 >>, d |-> 0]

RECURSIVE ClipPasses(_, _, _, _, _, _, _)
\* the loop over the side planes of the reference face: each pass clips
\* clipping_input into clipping_dst and swaps the two
ClipPasses(mem, clipping_input, clipping_dst, num_clipped_vertices, side_planes, j, g) ==
    IF j > Len(side_planes)
      THEN [mem |-> mem, clipping_input |-> clipping_input,
            clipping_dst |-> clipping_dst,
            num_clipped_vertices |-> num_clipped_vertices]
      ELSE LET input == [i \in 1..num_clipped_vertices |->
                            ReadVec(mem, clipping_input, i - 1, g)]
               out == ClipPolygon(side_planes[j], input)
           IN  ClipPasses(WriteVecs(mem, clipping_dst, out), clipping_dst,
                          clipping_input, Len(out), side_planes, j + 1, g)

\* createFaceContact as the HullHull case calls it: a_tmp_buf and b_tmp_buf
\* are the facePlanes arrays of the two hull states, one after the other in
\* tmp_faces; penetration_depths is clipping_dst read as floats
CreateFaceContact(faceQueryA, a, faceQueryB, b, g) ==
    LET a_is_ref == AIsRef(faceQueryA.separation, faceQueryB.separation)
        minimizing_query == IF a_is_ref THEN faceQueryA ELSE faceQueryB
        ref_hull == IF a_is_ref THEN a ELSE b
        other_hull == IF a_is_ref THEN b ELSE a
        a_tmp_buf == 0
        b_tmp_buf == 4 * Len(a.facePlanes)
        ref_tmp_buf == IF a_is_ref THEN a_tmp_buf ELSE b_tmp_buf
        other_tmp_buf == IF a_is_ref THEN b_tmp_buf ELSE a_tmp_buf
        tmp_faces == PlaneFloats(a.facePlanes \o b.facePlanes)
        ref_face_idx == minimizing_query.faceIdx
        ref_plane == ref_hull.facePlanes[ref_face_idx]
        incident_face_idx == FindIncidentFace(other_hull, ref_plane.normal)
        incident_loop == other_hull.faceLoops[incident_face_idx]
        incident == [j \in 1..Len(incident_loop) |->
                        other_hull.vertices[incident_loop[j]]]
        ref_loop == ref_hull.faceLoops[ref_face_idx]
        side_planes ==
            [j \in 1..Len(ref_loop) |->
               LET cur_point == ref_hull.vertices[ref_loop[j]]
                   next_point ==
                      ref_hull.vertices[ref_loop[(j % Len(ref_loop)) + 1]]
                   plane_normal == Cross(VSub(next_point, cur_point),
                                         ref_plane.normal)
               IN  [normal |-> plane_normal,
                    d |-> Dot(plane_normal, cur_point)]]
        after == ClipPasses(WriteVecs(tmp_faces, other_tmp_buf, incident),
                            other_tmp_buf, ref_tmp_buf, Len(incident),
                            side_planes, 1, g)
        num_clipped_vertices == after.num_clipped_vertices
        clipped == [i \in 1..num_clipped_vertices |->
                       ReadVec(after.mem, after.clipping_input, i - 1, g)]
        distances == [i \in 1..num_clipped_vertices |->
                         GetDistanceFromPlane(ref_plane, clipped[i])]
        \* the filter loop: only a vertex with d < 0 is projected and gets
        \* its depth stored
        contacts == [i \in 1..num_clipped_vertices |->
                        IF distances[i] < 0
                          THEN VSub(clipped[i],
                                    VScale(distances[i], ref_plane.normal))
                          ELSE clipped[i]]
        penetration_depths ==
            [i \in 1..num_clipped_vertices |->
                IF distances[i] < 0 THEN -distances[i]
                ELSE FloatAt(after.mem, after.clipping_dst + i - 1, g)]
    IN  Outcome(BuildFaceContactManifold(ref_plane.normal, contacts,
                                         penetration_depths, a_is_ref, g),
                "face", << faceQueryA.separation >>,
                << faceQueryB.separation >>, NotEvaluated, clipped,
                distances, contacts, penetration_depths, ref_plane,
                << 1, 1 >>)

\* createFaceContactPlane as the HullPlane case calls it: contacts_tmp is
\* the facePlanes array of the hull state, penetration_depths_tmp the
\* uninitialised part of tmp_faces after it.  Points are in units of
\* 1 / PlaneScale^2, depths in units of 1 / PlaneScale.
CreateFaceContactPlane(h, plane, faceQuery, g) ==
    LET incident_face_idx == FindIncidentFace(h, plane.normal)
        incident_loop == h.faceLoops[incident_face_idx]
        num_incident_vertices == Len(incident_loop)
        unit == (PlaneScale * PlaneScale) \div h.normalScale
        tmp_faces == [k \in DOMAIN PlaneFloats(h.facePlanes) |->
                         unit * PlaneFloats(h.facePlanes)[k]]
        incident == [i \in 1..num_incident_vertices |->
                        h.vertices[incident_loop[i]]]
        distances == [i \in 1..num_incident_vertices |->
                         GetDistanceFromPlane(plane, incident[i])]
        contacts_tmp ==
            [i \in 1..num_incident_vertices |->
                IF distances[i] < 0
                  THEN VSub(VScale(PlaneScale * PlaneScale, incident[i]),
                            VScale(distances[i], plane.normal))
                  ELSE ReadVec(tmp_faces, 0, i - 1,
                               PlaneScale * PlaneScale * g)]
        penetration_depths_tmp ==
            [i \in 1..num_incident_vertices |->
                IF distances[i] < 0 THEN -distances[i] ELSE PlaneScale * g]
    IN  Outcome(BuildFaceContactManifold(plane.normal, contacts_tmp,
                                         penetration_depths_tmp,
                                         PlaneManifoldAIsRef, PlaneScale * g),
                "face", << faceQuery.separation >>, NotEvaluated,
                NotEvaluated, incident, distances, contacts_tmp,
                penetration_depths_tmp, plane,
                << PlaneScale * PlaneScale, PlaneScale >>)

\* createEdgeContact: one point, aIsReference = true (the segment between
\* the two edges is not computed here)
CreateEdgeContact(query, faceQueryA, faceQueryB, a, b, g) ==
    Outcome([numContactPoints |-> 1,
             contactPoints |-> [i \in 1..4 |-> GarbageVec(g)],
             penetrationDepths |-> [i \in 1..4 |-> IF i = 1 THEN 0 ELSE g],
             normal |-> RotateVec(<< 2, 0, 0, 0 >>, query.normal),
             aIsReference |-> TRUE],
            "edge", << faceQueryA.separation >>, << faceQueryB.separation >>,
            << query.separation >>, << >>, << >>, << >>, << >>, NoPlane,
            << 1, 1 >>)

\* the return of doSAT or doSATPlane after a positive separation
NoContact(faceQueryA, faceQueryB, edgeQuery, g) ==
    Outcome(NoContactManifold(g), "none", faceQueryA, faceQueryB, edgeQuery,
            << >>, << >>, << >>, << >>, NoPlane, << 1, 1 >>)

\* doSAT(a, b, a.facePlanes, b.facePlanes, {0,0,0}, {1,0,0,0})
DoSAT(a, b, g) ==
    LET faceQueryA == QueryFaceDirections(a, b)
        faceQueryB == QueryFaceDirections(b, a)
        edgeQuery == QueryEdgeDirections(a, b)
    IN  IF SeparatingAxis(faceQueryA.separation)
          THEN NoContact(<< faceQueryA.separation >>, NotEvaluated,
                         NotEvaluated, g)
        ELSE IF SeparatingAxis(faceQueryB.separation)
          THEN NoContact(<< faceQueryA.separation >>,
                         << faceQueryB.separation >>, NotEvaluated, g)
        ELSE IF SeparatingAxis(edgeQuery.separation)
          THEN NoContact(<< faceQueryA.separation >>,
                         << faceQueryB.separation >>,
                         << edgeQuery.separation >>, g)
        ELSE IF IsFaceContact(faceQueryA.separation, faceQueryB.separation,
                              edgeQuery.separation)
          THEN [CreateFaceContact(faceQueryA, a, faceQueryB, b, g)
                  EXCEPT !.edgeQuery = << edgeQuery.separation >>]
        ELSE CreateEdgeContact(edgeQuery, faceQueryA, faceQueryB, a, b, g)

\* doSATPlane(plane, h, tmp_faces, tmp_faces + numFaces, {0,0,0}, {1,0,0,0})
DoSATPlane(plane, h, g) ==
    LET faceQuery == QueryFaceDirectionsPlane(plane, h)
    IN  IF SeparatingAxis(faceQuery.separation)
          THEN NoContact(<< faceQuery.separation >>, NotEvaluated,
                         NotEvaluated, g)
          ELSE CreateFaceContactPlane(h, plane, faceQuery, g)

\* the hull state of a shape
HullStateOf(o) ==
    IF o.shape = "box" THEN BoxHull(o.lo, o.hi)
    ELSE HexPrismHull(o.lo[3], o.hi[3])

Box(lo, size) ==
    [shape |-> "box", lo |-> lo,
     hi |-> << lo[1] + size, lo[2] + size, lo[3] + size >>]

\* hull a of the HullHull case and the hulls b it meets: smaller or equal
\* boxes apart, touching, or overlapping
HullsA == {Box(<< 0, 0, 0 >>, 4)}
HullsB ==
    {Box(<< x, y, z >>, size) :
        x \in {-2, 2, 4, 6}, y \in {0, 2}, z \in {0, 4}, size \in {2, 4}}

\* the hulls and planes of the HullPlane case: a box and a hexagonal prism
\* standing on z = 0, level planes at three heights and planes with normal
\* (0, 3/5, 4/5) at four offsets
PlaneHulls ==
    {Box(<< 0, 0, 0 >>, 2),
     [shape |-> "hex", lo |-> << 0, 0, 0 >>, hi |-> << 0, 0, 2 >>]}
Planes ==
    {[normal |-> << 0, 0, PlaneScale >>, d |-> PlaneScale * height] :
        height \in {-1, 0, 1}}
    \union {[normal |-> << 0, 3, 4 >>, d |-> d] : d \in {-5, 0, 5, 20}}

FcIdle ==
    /\ fc_kind = "idle"
    /\ fc_a = << >>
    /\ fc_b = << >>
    /\ fc_garbage = 0
    /\ fc_out = << >>

\* a pair of hulls or a hull and a plane, before the call
FcInit ==
    /\ fc_kind \in {"hulls", "plane"}
    /\ fc_a \in IF fc_kind = "hulls" THEN HullsA ELSE PlaneHulls
    /\ fc_b \in IF fc_kind = "hulls" THEN HullsB ELSE Planes
    /\ fc_garbage \in GarbageFloats
    /\ fc_out = << >>

\* doSAT on (a, b)
FcDoSAT ==
    /\ fc_kind = "hulls"
    /\ fc_out = << >>
    /\ fc_out' = << DoSAT(HullStateOf(fc_a), HullStateOf(fc_b), fc_garbage) >>
    /\ UNCHANGED << fc_kind, fc_a, fc_b, fc_garbage >>
    /\ UNCHANGED notFcVars

\* doSAT on (b, a): the same pair handed over in the other order
FcDoSATSwapped ==
    /\ fc_kind = "hulls"
    /\ Len(fc_out) = 1
    /\ fc_out' = Append(fc_out,
          DoSAT(HullStateOf(fc_b), HullStateOf(fc_a), fc_garbage))
    /\ UNCHANGED << fc_kind, fc_a, fc_b, fc_garbage >>
    /\ UNCHANGED notFcVars

\* doSATPlane on (plane, hull)
FcDoSATPlane ==
    /\ fc_kind = "plane"
    /\ fc_out = << >>
    /\ fc_out' = << DoSATPlane(fc_b, HullStateOf(fc_a), fc_garbage) >>
    /\ UNCHANGED << fc_kind, fc_a, fc_b, fc_garbage >>
    /\ UNCHANGED notFcVars

FcNext ==
    \/ FcDoSAT
    \/ FcDoSATSwapped
    \/ FcDoSATPlane

----------------------------------------------------------------------------
(* traceRayTLAS: the explicit-stack traversal of the top-level QBVH.  A     *)
(* QBVHNode holds minPoint, the three exponents, numChildren, childrenIdx   *)
(* and the quantised bounds of its four child slots.  Coordinates are       *)
(* integers and a ray direction has components in {-1, 0, 1}, so that the   *)
(* reciprocals and the products of the slab test are exact.  Arrays are     *)
(* functions on 0..n-1, as in the program.                                  *)

\* int32_t stack[32]
StackCapacity == 32

\* inv_epsilon
InvEpsilon == 100000

\* tMax of the TraceInfo that bvhRaycastEntry hands over
EntryTMax == 10000

FMin(a, b) == IF a < b THEN a ELSE b

FMax(a, b) == IF a > b THEN a ELSE b

ArrayOf(s) == [k \in 0..(Len(s) - 1) |-> s[k + 1]]

Pad4(s, zero) == [i \in 1..4 |-> IF i <= Len(s) THEN s[i] ELSE zero]

\* a node as the build stores it: the children fill the first numChildren
\* slots, the other slots hold 0 (absent) and zeroed bounds
QBVHNode(minPoint, exp, children, qMin, qMax) ==
    [minPoint |-> minPoint, exp |-> exp, numChildren |-> Len(children),
     childrenIdx |-> Pad4(children, 0),
     qMin |-> Pad4(qMin, << 0, 0, 0 >>),
     qMax |-> Pad4(qMax, << 0, 0, 0 >>)]

\* copysignf(d == 0.f ? inv_epsilon : 1.f / d, d), for d in {-1, 0, 1}
InvRayD(d) == IF d = 0 THEN InvEpsilon ELSE d

\* __uint_as_float((exp + 127) << 23) * inv_ray_d
DirQuant(node, ray) ==
    [k \in 1..3 |-> (2 ^ node.exp[k]) * InvRayD(ray.rayDirection[k])]

OriginQuant(node, ray) ==
    [k \in 1..3 |-> (node.minPoint[k] - ray.rayOrigin[k])
                        * InvRayD(ray.rayDirection[k])]

\* t_near3 of child slot i (1..4 here, 0..3 in the program)
TNear3(node, i, ray) ==
    [k \in 1..3 |-> node.qMin[i][k] * DirQuant(node, ray)[k]
                        + OriginQuant(node, ray)[k]]

TFar3(node, i, ray) ==
    [k \in 1..3 |-> node.qMax[i][k] * DirQuant(node, ray)[k]
                        + OriginQuant(node, ray)[k]]

TNear(node, i, ray) ==
    LET n == TNear3(node, i, ray)
        f == TFar3(node, i, ray)
    IN  FMax(FMin(n[1], f[1]),
             FMax(FMin(n[2], f[2]), FMax(FMin(n[3], f[3]), 0)))

TFar(node, i, ray, tMax) ==
    LET n == TNear3(node, i, ray)
        f == TFar3(node, i, ray)
    IN  FMin(FMax(f[1], n[1]),
             FMin(FMax(f[2], n[2]), FMin(FMax(f[3], n[3]), tMax)))

\* the test of line 313, with every child let through
SlabTestAlways(t_near, t_far) == TRUE
SlabTest(t_near, t_far) == t_near <= t_far

\* the test of line 314, with the child -1 taken for an internal node
IsLeafChildBelowMinusOne(child) == child < -1
IsLeafChild(child) == child < 0

\* the instance a leaf child stands for
InstanceIdx(child) == -child - 1

\* the node a stack entry stands for
NodeIdx(entry) == entry - 1

\* the instance is skipped when its scale is zero on the three axes
ZeroScale(instance) ==
    instance.scale[1] = 0 /\ instance.scale[2] = 0 /\ instance.scale[3] = 0

InstanceData(scale) == [scale |-> << scale, scale, scale >>]

\* the world of the example: one node over two leaves, (0,0,0)..(2,2,2) and
\* (4,4,4)..(6,6,6)
TwoLeaves ==
    [nodes |-> ArrayOf(<<
         QBVHNode(<< 0, 0, 0 >>, << 0, 0, 0 >>, << -1, -2 >>,
                  << << 0, 0, 0 >>, << 4, 4, 4 >> >>,
                  << << 2, 2, 2 >>, << 6, 6, 6 >> >>) >>),
     instances |-> ArrayOf(<< InstanceData(1), InstanceData(2) >>)]

\* a root with two internal children around a leaf; the root quantises with
\* scale 2; instance 2 has no scale
TwoLevels ==
    [nodes |-> ArrayOf(<<
         QBVHNode(<< 0, 0, 0 >>, << 1, 1, 1 >>, << 2, -1, 3 >>,
                  << << 0, 0, 0 >>, << 4, 0, 0 >>, << 0, 2, 0 >> >>,
                  << << 3, 1, 1 >>, << 5, 1, 1 >>, << 1, 3, 1 >> >>),
         QBVHNode(<< 0, 0, 0 >>, << 0, 0, 0 >>, << -2, -3 >>,
                  << << 0, 0, 0 >>, << 4, 0, 0 >> >>,
                  << << 2, 2, 2 >>, << 6, 2, 2 >> >>),
         QBVHNode(<< 0, 4, 0 >>, << 0, 0, 0 >>, << -4 >>,
                  << << 0, 0, 0 >> >>,
                  << << 2, 2, 2 >> >>) >>),
     instances |-> ArrayOf(<< InstanceData(1), InstanceData(1),
                              InstanceData(0), InstanceData(1) >>)]

\* number of levels of four internal children in the deep world
CombLevels == 11

\* node idx of a tree of `levels` levels whose nodes 0, 4, 8, ... have four
\* internal children each, the last of them the node of the next level; every
\* other node holds one leaf.  All the boxes are (0,0,0)..(2,2,2).
CombNode(idx, levels) ==
    IF idx % 4 = 0 /\ idx < 4 * levels
    THEN QBVHNode(<< 0, 0, 0 >>, << 0, 0, 0 >>,
                  << idx + 2, idx + 3, idx + 4, idx + 5 >>,
                  [i \in 1..4 |-> << 0, 0, 0 >>],
                  [i \in 1..4 |-> << 2, 2, 2 >>])
    ELSE QBVHNode(<< 0, 0, 0 >>, << 0, 0, 0 >>, << -idx - 1 >>,
                  << << 0, 0, 0 >> >>, << << 2, 2, 2 >> >>)

Comb(levels) ==
    [nodes |-> [idx \in 0..(4 * levels) |-> CombNode(idx, levels)],
     instances |-> [idx \in 0..(4 * levels) |-> InstanceData(1)]]

TraceWorlds == {TwoLeaves, TwoLevels, Comb(2), Comb(CombLevels)}

TraceInfo(rayOrigin, rayDirection) ==
    [rayOrigin |-> rayOrigin, rayDirection |-> rayDirection,
     tMax |-> EntryTMax]

TraceRays ==
    {TraceInfo(<< -2, 1, 1 >>, << 1, 0, 0 >>),
     TraceInfo(<< 1, -2, 1 >>, << 0, 1, 0 >>),
     TraceInfo(<< 1, 1, 1 >>, << 0, 0, -1 >>),
     TraceInfo(<< -2, 5, 1 >>, << 1, 0, 0 >>),
     TraceInfo(<< -2, 1, 1 >>, << -1, 0, 0 >>),
     TraceInfo(<< 20, 20, 20 >>, << 1, 0, 0 >>)}

TrIdle ==
    /\ tr_pc = "idle"
    /\ tr_world = << >>
    /\ tr_ray = << >>
    /\ tr_stack = << >>
    /\ tr_stack_size = 0
    /\ tr_node_idx = 0
    /\ tr_i = 0
    /\ tr_tMax = 0
    /\ tr_hit = FALSE
    /\ tr_reads = << >>
    /\ tr_leaves = << >>
    /\ tr_pushes = << >>

\* lines 255-272: the root is pushed as entry 1, nothing is hit yet
TrInit ==
    /\ tr_pc = "loop"
    /\ tr_world \in TraceWorlds
    /\ tr_ray \in TraceRays
    /\ tr_stack = << 1 >>
    /\ tr_stack_size = 1
    /\ tr_node_idx = 0
    /\ tr_i = 0
    /\ tr_tMax = tr_ray.tMax
    /\ tr_hit = FALSE
    /\ tr_reads = << >>
    /\ tr_leaves = << >>
    /\ tr_pushes = << >>

TrNode == tr_world.nodes[tr_node_idx]

\* the child slot the for loop is at (1..4)
TrSlot == tr_i + 1

TrChildPasses ==
    SlabTest(TNear(TrNode, TrSlot, tr_ray),
             TFar(TrNode, TrSlot, tr_ray, tr_tMax))

\* int32_t node_idx = stack[--stack_size] - 1; node = nodes[node_idx]
\* (a read outside the node array ends the model in "wild")
TrPop ==
    /\ tr_pc = "loop"
    /\ tr_stack_size > 0
    /\ tr_stack_size' = tr_stack_size - 1
    /\ tr_node_idx' = NodeIdx(tr_stack[tr_stack_size])
    /\ tr_stack' = SubSeq(tr_stack, 1, tr_stack_size - 1)
    /\ tr_reads' = Append(tr_reads, tr_node_idx')
    /\ tr_i' = 0
    /\ tr_pc' = IF tr_node_idx' \in DOMAIN tr_world.nodes
                THEN "children" ELSE "wild"
    /\ UNCHANGED << tr_world, tr_ray, tr_tMax, tr_hit, tr_leaves, tr_pushes >>
    /\ UNCHANGED notTrVars

\* the slab test of child i fails
TrMissChild ==
    /\ tr_pc = "children"
    /\ tr_i < TrNode.numChildren
    /\ ~TrChildPasses
    /\ tr_i' = tr_i + 1
    /\ UNCHANGED << tr_pc, tr_world, tr_ray, tr_stack, tr_stack_size,
                    tr_node_idx, tr_tMax, tr_hit, tr_reads, tr_leaves,
                    tr_pushes >>
    /\ UNCHANGED notTrVars

\* a leaf whose instance has no scale: continue
TrSkipInstance ==
    /\ tr_pc = "children"
    /\ tr_i < TrNode.numChildren
    /\ TrChildPasses
    /\ IsLeafChild(TrNode.childrenIdx[TrSlot])
    /\ ZeroScale(tr_world.instances[InstanceIdx(TrNode.childrenIdx[TrSlot])])
    /\ tr_i' = tr_i + 1
    /\ UNCHANGED << tr_pc, tr_world, tr_ray, tr_stack, tr_stack_size,
                    tr_node_idx, tr_tMax, tr_hit, tr_reads, tr_leaves,
                    tr_pushes >>
    /\ UNCHANGED notTrVars

\* if (leaf_hit) trace_info.tMax = hit_info.tHit / t_scale
TMaxAfterHitKept(tMax, tHit) == tMax
TMaxAfterHit(tMax, tHit) == tHit

\* a leaf: the BLAS of the instance is traced with the ray brought into the
\* instance's frame.  The mesh lies inside the child box, so a hit comes back,
\* in world units (tHit / t_scale), where the ray enters the box or where it
\* leaves it within tMax.
TrTraceInstance(leaf_hit, enters) ==
    /\ tr_pc = "children"
    /\ tr_i < TrNode.numChildren
    /\ TrChildPasses
    /\ IsLeafChild(TrNode.childrenIdx[TrSlot])
    /\ LET instance_idx == InstanceIdx(TrNode.childrenIdx[TrSlot])
           \* hit_info.tHit / t_scale
           tHit == IF enters THEN TNear(TrNode, TrSlot, tr_ray)
                   ELSE TFar(TrNode, TrSlot, tr_ray, tr_tMax)
       IN  /\ ~ZeroScale(tr_world.instances[instance_idx])
           /\ tr_leaves' = Append(tr_leaves,
                 [node |-> tr_node_idx, slot |-> tr_i,
                  child |-> TrNode.childrenIdx[TrSlot],
                  instance_idx |-> instance_idx, leaf_hit |-> leaf_hit,
                  tMax |-> tr_tMax,
                  tHit |-> IF leaf_hit THEN << tHit >> ELSE << >>])
           /\ tr_tMax' = IF leaf_hit THEN TMaxAfterHit(tr_tMax, tHit)
                         ELSE tr_tMax
    /\ tr_hit' = (tr_hit \/ leaf_hit)
    /\ tr_i' = tr_i + 1
    /\ UNCHANGED << tr_pc, tr_world, tr_ray, tr_stack, tr_stack_size,
                    tr_node_idx, tr_reads, tr_pushes >>
    /\ UNCHANGED notTrVars

\* stack[stack_size++] = node.childrenIdx[i]
\* (a write past stack[31] ends the model in "smashed")
TrPush ==
    /\ tr_pc = "children"
    /\ tr_i < TrNode.numChildren
    /\ TrChildPasses
    /\ ~IsLeafChild(TrNode.childrenIdx[TrSlot])
    /\ tr_stack' = Append(tr_stack, TrNode.childrenIdx[TrSlot])
    /\ tr_stack_size' = tr_stack_size + 1
    /\ tr_pushes' = Append(tr_pushes,
          [node |-> tr_node_idx, slot |-> tr_i,
           child |-> TrNode.childrenIdx[TrSlot]])
    /\ tr_i' = tr_i + 1
    /\ tr_pc' = IF tr_stack_size' > StackCapacity THEN "smashed"
                ELSE "children"
    /\ UNCHANGED << tr_world, tr_ray, tr_node_idx, tr_tMax, tr_hit, tr_reads,
                    tr_leaves >>
    /\ UNCHANGED notTrVars

\* the for loop over the children is over
TrEndChildren ==
    /\ tr_pc = "children"
    /\ tr_i >= TrNode.numChildren
    /\ tr_pc' = "loop"
    /\ UNCHANGED << tr_world, tr_ray, tr_stack, tr_stack_size, tr_node_idx,
                    tr_i, tr_tMax, tr_hit, tr_reads, tr_leaves, tr_pushes >>
    /\ UNCHANGED notTrVars

\* the while loop is over: result.hit, and result.depth = tMax on a hit
TrReturn ==
    /\ tr_pc = "loop"
    /\ tr_stack_size = 0
    /\ tr_pc' = "done"
    /\ UNCHANGED << tr_world, tr_ray, tr_stack, tr_stack_size, tr_node_idx,
                    tr_i, tr_tMax, tr_hit, tr_reads, tr_leaves, tr_pushes >>
    /\ UNCHANGED notTrVars

TrNext ==
    \/ TrPop
    \/ TrMissChild
    \/ TrSkipInstance
    \/ \E leaf_hit \in BOOLEAN, enters \in BOOLEAN :
          TrTraceInstance(leaf_hit, enters)
    \/ TrPush
    \/ TrEndChildren
    \/ TrReturn

----------------------------------------------------------------------------
(* narrowphase::setupTasks and the execution of the task graph it extends.  *)
(* The graph is the sequence of the nodes added so far; a NodeID is the      *)
(* position of its node.  A node starts once every node it depends on has    *)
(* finished; a parallel-for node runs one invocation per row and finishes    *)
(* when all of them have.                                                    *)

\* most CandidateCollision rows of a step
MaxCandidates == 2

TaskNode(kind, dependencies) == [kind |-> kind, dependencies |-> dependencies]

\* builder.addToGraph<NodeT>(dependencies): the graph with the new node, whose
\* NodeID is its position
AddToGraph(graph, kind, dependencies) ==
    Append(graph, TaskNode(kind, dependencies))

\* the dependencies of the node of ParallelForNode<Context, runNarrowphase,
\* CandidateCollision>
NarrowphaseDependencies(deps) == deps

\* the reset node without a dependency
ResetDependenciesNone(narrowphase) == {}
\* the dependencies of the node of ResetTmpAllocNode: { narrowphase }
ResetDependencies(narrowphase) == {narrowphase}

\* setupTasks(builder, deps): the graph afterwards and the NodeID returned
SetupTasks(graph, deps) ==
    LET withNarrowphase ==
            AddToGraph(graph, "runNarrowphase", NarrowphaseDependencies(deps))
        narrowphase == Len(withNarrowphase)
        withReset ==
            AddToGraph(withNarrowphase, "ResetTmpAlloc",
                       ResetDependencies(narrowphase))
    IN  [graph |-> withReset, handle |-> Len(withReset)]

\* the graphs the caller has built before: the broad-phase nodes, the second
\* one after the first or beside it
PriorGraphs ==
    {<< TaskNode("broadphase", {}), TaskNode("broadphase", second) >> :
        second \in {{}, {1}}}

TgIdle ==
    /\ tg_pc = "idle"
    /\ tg_graph = << >>
    /\ tg_deps = {}
    /\ tg_handle = << >>
    /\ tg_state = << >>
    /\ tg_rows = 0
    /\ tg_inv = << >>

TgInit ==
    /\ tg_pc = "build"
    /\ tg_graph \in PriorGraphs
    /\ tg_deps \in SUBSET (DOMAIN tg_graph)
    /\ tg_handle = << >>
    /\ tg_state = << >>
    /\ tg_rows \in 0..MaxCandidates
    /\ tg_inv = << >>

\* setupTasks(builder, deps); afterwards the graph is handed to the executor
\* with every node waiting and every row of the step pending
TgSetupTasks ==
    /\ tg_pc = "build"
    /\ LET built == SetupTasks(tg_graph, tg_deps)
       IN  /\ tg_graph' = built.graph
           /\ tg_handle' = << built.handle >>
           /\ tg_state' = [n \in 1..Len(built.graph) |-> "waiting"]
    /\ tg_inv' = [c \in 1..tg_rows |-> "pending"]
    /\ tg_pc' = "run"
    /\ UNCHANGED << tg_deps, tg_rows >>
    /\ UNCHANGED notTgVars

\* the executor starts a node whose dependencies have all finished
TgStartNode(n) ==
    /\ tg_pc = "run"
    /\ tg_state[n] = "waiting"
    /\ \A d \in tg_graph[n].dependencies : tg_state[d] = "finished"
    /\ tg_state' = [tg_state EXCEPT ![n] = "running"]
    /\ UNCHANGED << tg_pc, tg_graph, tg_deps, tg_handle, tg_rows, tg_inv >>
    /\ UNCHANGED notTgVars

\* one invocation of runNarrowphase starts, on row c
TgStartInvocation(n, c) ==
    /\ tg_pc = "run"
    /\ tg_graph[n].kind = "runNarrowphase"
    /\ tg_state[n] = "running"
    /\ tg_inv[c] = "pending"
    /\ tg_inv' = [tg_inv EXCEPT ![c] = "running"]
    /\ UNCHANGED << tg_pc, tg_graph, tg_deps, tg_handle, tg_rows, tg_state >>
    /\ UNCHANGED notTgVars

\* the invocation on row c returns
TgFinishInvocation(c) ==
    /\ tg_pc = "run"
    /\ tg_inv[c] = "running"
    /\ tg_inv' = [tg_inv EXCEPT ![c] = "done"]
    /\ UNCHANGED << tg_pc, tg_graph, tg_deps, tg_handle, tg_rows, tg_state >>
    /\ UNCHANGED notTgVars

\* a running node finishes; the parallel-for node when all its invocations
\* have returned
TgFinishNode(n) ==
    /\ tg_pc = "run"
    /\ tg_state[n] = "running"
    /\ tg_graph[n].kind = "runNarrowphase" =>
          \A c \in DOMAIN tg_inv : tg_inv[c] = "done"
    /\ tg_state' = [tg_state EXCEPT ![n] = "finished"]
    /\ UNCHANGED << tg_pc, tg_graph, tg_deps, tg_handle, tg_rows, tg_inv >>
    /\ UNCHANGED notTgVars

TgNext ==
    \/ TgSetupTasks
    \/ \E n \in DOMAIN tg_graph : TgStartNode(n)
    \/ \E n \in DOMAIN tg_graph, c \in DOMAIN tg_inv : TgStartInvocation(n, c)
    \/ \E c \in DOMAIN tg_inv : TgFinishInvocation(c)
    \/ \E n \in DOMAIN tg_graph : TgFinishNode(n)

----------------------------------------------------------------------------
(* bvhRaycastEntry: the view loop of the threads of a launch.  A thread is  *)
(* << blockIdx.x, pixel >>; the threads modelled are those of the blocks     *)
(* with blockIdx.y = blockIdx.z = 0, one warp per block, with the pixels     *)
(* (0,0) .. (PixelsPerBlock-1, 0).  The outputs are kept per byte offset as  *)
(* the sequence of the values written there.  The numbers stay far below     *)
(* 2^32, the width of the program's counters and offsets.                    *)

\* most resident blocks along x (gridDim.x)
MaxGridDim == 2

\* most views (numViews)
MaxViews == 3

\* blockDim.x
PixelsPerBlock == 2

\* bvhParams.renderOutputResolution
RenderOutputResolution == 2

\* renderOutputResolution * renderOutputResolution * 4
BytesPerView == RenderOutputResolution * RenderOutputResolution * 4

\* 4 * (pixel_y + pixel_x * renderOutputResolution)
LinearPixelIdx(pixel_x, pixel_y) ==
    4 * (pixel_y + pixel_x * RenderOutputResolution)

\* current_view_offset * bytes_per_view + linear_pixel_idx
GlobalPixelByteOff(view, pixel_x, pixel_y) ==
    view * BytesPerView + LinearPixelIdx(pixel_x, pixel_y)

\* what traceRayTLAS can hand back: no hit, or a hit with its depth and colour
TraceResults ==
    {[hit |-> FALSE, depth |-> 0, color |-> << 0, 0, 0 >>],
     [hit |-> TRUE, depth |-> 3, color |-> << 1, 0, 1 >>]}

\* writeRGB: the four bytes of the pixel
RGBBytes(color) == << color[1] * 255, color[2] * 255, color[3] * 255, 255 >>

\* the colour written for the result: black on a miss
ColorWritten(result) ==
    IF result.hit THEN result.color ELSE << 0, 0, 0 >>

\* the depth written for the result: 0 on a miss
DepthWritten(result) == IF result.hit THEN result.depth ELSE 0

\* the view cursor moved on by one instead of by the number of blocks
NextViewOffsetByOne(current_view_offset, num_resident_views) ==
    current_view_offset + 1
\* current_view_offset += num_resident_views
NextViewOffset(current_view_offset, num_resident_views) ==
    current_view_offset + num_resident_views

ReThreads == (0..(re_gridDim - 1)) \X (0..(PixelsPerBlock - 1))

ReOffsets ==
    {GlobalPixelByteOff(view, pixel_x, 0) :
        view \in 0..(re_numViews - 1), pixel_x \in 0..(PixelsPerBlock - 1)}

ReIdle ==
    /\ re_gridDim = 0
    /\ re_numViews = 0
    /\ re_raycastRGBD = FALSE
    /\ re_pc = << >>
    /\ re_view = << >>
    /\ re_traced = << >>
    /\ re_depthOutput = << >>
    /\ re_rgbOutput = << >>

\* the launch: every thread starts with current_view_offset = blockIdx.x
ReInit ==
    /\ re_gridDim \in 1..MaxGridDim
    /\ re_numViews \in 0..MaxViews
    /\ re_raycastRGBD \in BOOLEAN
    /\ re_pc = [t \in ReThreads |-> "loop"]
    /\ re_view = [t \in ReThreads |-> t[1]]
    /\ re_traced = [t \in ReThreads |-> << >>]
    /\ re_depthOutput = [off \in ReOffsets |-> << >>]
    /\ re_rgbOutput = [off \in ReOffsets |-> << >>]

\* one pass of the while loop of thread t up to __syncwarp(): the ray of the
\* pixel is traced in the view, the result is written, the cursor moves on
ReTraceView(t, result) ==
    /\ re_pc[t] = "loop"
    /\ re_view[t] < re_numViews
    /\ LET off == GlobalPixelByteOff(re_view[t], t[2], 0)
       IN  /\ re_depthOutput' =
                [re_depthOutput EXCEPT
                    ![off] = Append(@, DepthWritten(result))]
           /\ re_rgbOutput' =
                IF re_raycastRGBD
                THEN [re_rgbOutput EXCEPT
                         ![off] = Append(@, RGBBytes(ColorWritten(result)))]
                ELSE re_rgbOutput
    /\ re_traced' = [re_traced EXCEPT
                        ![t] = Append(@, [view |-> re_view[t],
                                          result |-> result])]
    /\ re_view' = [re_view EXCEPT
                      ![t] = NextViewOffset(re_view[t], re_gridDim)]
    /\ re_pc' = [re_pc EXCEPT ![t] = "sync"]
    /\ UNCHANGED << re_gridDim, re_numViews, re_raycastRGBD >>
    /\ UNCHANGED notReVars

\* __syncwarp(): the threads of the warp of block b go on together
ReSyncWarp(b) ==
    /\ \A t \in ReThreads : t[1] = b => re_pc[t] = "sync"
    /\ re_pc' = [t \in ReThreads |-> IF t[1] = b THEN "loop" ELSE re_pc[t]]
    /\ UNCHANGED << re_gridDim, re_numViews, re_raycastRGBD, re_view,
                    re_traced, re_depthOutput, re_rgbOutput >>
    /\ UNCHANGED notReVars

\* the while condition fails: the thread returns
ReReturn(t) ==
    /\ re_pc[t] = "loop"
    /\ ~(re_view[t] < re_numViews)
    /\ re_pc' = [re_pc EXCEPT ![t] = "done"]
    /\ UNCHANGED << re_gridDim, re_numViews, re_raycastRGBD, re_view,
                    re_traced, re_depthOutput, re_rgbOutput >>
    /\ UNCHANGED notReVars

ReNext ==
    \/ \E t \in ReThreads, result \in TraceResults : ReTraceView(t, result)
    \/ \E b \in 0..(re_gridDim - 1) : ReSyncWarp(b)
    \/ \E t \in ReThreads : ReReturn(t)

----------------------------------------------------------------------------
(* buildFaceContactManifold on more than four contacts.  The contacts are    *)
(* corners of a convex hexagon of the plane z = 0, in any order; every       *)
(* corner has a penetration depth of its own.                                *)

HexagonCorners ==
    << << 3, 0, 0 >>, << 2, 2, 0 >>, << 0, 3, 0 >>, << -3, 1, 0 >>,
       << -2, -2, 0 >>, << 1, -3, 0 >> >>

\* the penetration depth that comes with a corner
DepthOfCorner(p) ==
    CHOOSE k \in 1..Len(HexagonCorners) : HexagonCorners[k] = p

\* the contact arrays of n pairwise different corners
ContactArrays(n) ==
    {[i \in 1..n |-> HexagonCorners[order[i]]] :
        order \in {f \in [1..n -> 1..Len(HexagonCorners)] :
                      \A i, j \in 1..n : i # j => f[i] # f[j]}}

\* the contacts, the normal of the reference face, before the call
RdInit ==
    /\ fc_kind = "contacts"
    /\ fc_a \in ContactArrays(5) \cup ContactArrays(6)
    /\ fc_b = << 0, 0, 1 >>
    /\ fc_garbage \in GarbageFloats
    /\ fc_out = << >>

\* buildFaceContactManifold(contact_normal, contacts, penetration_depths,
\* num_contacts, a_is_ref, {0, 0, 0}, {1, 0, 0, 0})
RdBuildFaceContactManifold(a_is_ref) ==
    /\ fc_kind = "contacts"
    /\ fc_out = << >>
    /\ fc_out' = << [manifold |->
                       BuildFaceContactManifold(fc_b, fc_a,
                           [i \in 1..Len(fc_a) |-> DepthOfCorner(fc_a[i])],
                           a_is_ref, fc_garbage)] >>
    /\ UNCHANGED << fc_kind, fc_a, fc_b, fc_garbage >>
    /\ UNCHANGED notFcVars

RdNext == \E a_is_ref \in BOOLEAN : RdBuildFaceContactManifold(a_is_ref)

----------------------------------------------------------------------------
(* edgeDistance on two single edges.  An edge is handed over as a hull of    *)
(* two vertices with one half edge; the directions are along the axes, with  *)
(* lengths 1, 2 and 3.                                                       *)

EdgeDirections ==
    {<< 1, 0, 0 >>, << 2, 0, 0 >>, << -3, 0, 0 >>, << 0, 1, 0 >>,
     << 0, -2, 0 >>, << 0, 0, 1 >>, << 0, 0, 3 >>}

\* a hull state holding the edge from p1 along dir
EdgeHull(p1, dir, center) ==
    [vertices |-> << p1, VAdd(p1, dir) >>, faceLoops |-> << << 1, 2 >> >>,
     center |-> center]

EdInit ==
    /\ fc_kind = "edges"
    /\ fc_a \in {EdgeHull(<< 1, 1, 1 >>, dir, << 0, 0, 0 >>) :
                    dir \in EdgeDirections}
    /\ fc_b \in {EdgeHull(p1, dir, << 4, 4, 4 >>) :
                    p1 \in {<< 3, 3, 3 >>, << 0, 2, 5 >>},
                    dir \in EdgeDirections}
    /\ fc_garbage = 0
    /\ fc_out = << >>

\* edgeDistance(a, b, edgeA, edgeB)
EdEdgeDistance ==
    /\ fc_kind = "edges"
    /\ fc_out = << >>
    /\ fc_out' = << EdgeDistance(fc_a, fc_b, << 1, 1 >>, << 1, 1 >>) >>
    /\ UNCHANGED << fc_kind, fc_a, fc_b, fc_garbage >>
    /\ UNCHANGED notFcVars

EdNext == EdEdgeDistance

----------------------------------------------------------------------------
(* The child words of one BVH::Node under setLeaf, setInternal and          *)
(* clearChild.  Only the children field of the node is kept; the indices     *)
(* handed over are the least, the largest but one and the largest            *)
(* non-negative int32_t.                                                     *)

\* operations applied to the node in a run
MaxNodeOps == 3

LeafIndices == {0, MaxInt32 - 1, MaxInt32}
InternalIndices == {0, MaxInt32}

NdInit ==
    /\ fc_kind = "node"
    /\ fc_a = [children |-> [c \in Slots |-> sentinel_]]
    /\ fc_b = 0
    /\ fc_garbage = 0
    /\ fc_out = << >>

\* node.setLeaf(child, idx)
NdSetLeaf(child, idx) ==
    /\ fc_kind = "node"
    /\ Len(fc_out) < MaxNodeOps
    /\ fc_a' = SetLeaf(fc_a, child, idx)
    /\ fc_out' = Append(fc_out, [op |-> "setLeaf", child |-> child,
                                 idx |-> idx, before |-> fc_a])
    /\ UNCHANGED << fc_kind, fc_b, fc_garbage >>
    /\ UNCHANGED notFcVars

\* node.setInternal(child, internal_idx)
NdSetInternal(child, internal_idx) ==
    /\ fc_kind = "node"
    /\ Len(fc_out) < MaxNodeOps
    /\ fc_a' = SetInternal(fc_a, child, internal_idx)
    /\ fc_out' = Append(fc_out, [op |-> "setInternal", child |-> child,
                                 idx |-> internal_idx, before |-> fc_a])
    /\ UNCHANGED << fc_kind, fc_b, fc_garbage >>
    /\ UNCHANGED notFcVars

\* node.clearChild(child)
NdClearChild(child) ==
    /\ fc_kind = "node"
    /\ Len(fc_out) < MaxNodeOps
    /\ fc_a' = ClearChild(fc_a, child)
    /\ fc_out' = Append(fc_out, [op |-> "clearChild", child |-> child,
                                 idx |-> 0, before |-> fc_a])
    /\ UNCHANGED << fc_kind, fc_b, fc_garbage >>
    /\ UNCHANGED notFcVars

NdNext ==
    \/ \E child \in Slots, idx \in LeafIndices : NdSetLeaf(child, idx)
    \/ \E child \in Slots, idx \in InternalIndices : NdSetInternal(child, idx)
    \/ \E child \in Slots : NdClearChild(child)

----------------------------------------------------------------------------
(* BVH::findOverlaps on the node array of a build.  build is a 4-wide tree   *)
(* over the leaves sorted along x, split at the median of the centroids      *)
(* twice per node, the internal nodes packed depth-first; leaf l is the box  *)
(* [2l, 2l+1] x [0, 1] x [0, 1].                                             *)

\* leaves handed to a build
MaxBuildLeaves == 32

\* int32_t stack[128]
OverlapStackCapacity == 128

\* number of leaves under each of the four children of a node over n leaves
PartSizes(n) ==
    IF n <= Width
      THEN [i \in Slots |-> IF i < n THEN 1 ELSE 0]
      ELSE LET left == n - n \div 2
               right == n - left
           IN  [i \in Slots |->
                   CASE i = 0 -> left - left \div 2
                     [] i = 1 -> left \div 2
                     [] i = 2 -> right - right \div 2
                     [] OTHER -> right \div 2]

RECURSIVE SizesBefore(_, _)
SizesBefore(n, i) ==
    IF i = 0 THEN 0 ELSE SizesBefore(n, i - 1) + PartSizes(n)[i - 1]

\* number of nodes of the tree over n leaves
RECURSIVE NodeCount(_)
RECURSIVE NodesBefore(_, _)
NodeCount(n) == 1 + NodesBefore(n, Width)
NodesBefore(n, i) ==
    IF i = 0 THEN 0
    ELSE NodesBefore(n, i - 1)
           + (IF PartSizes(n)[i - 1] > 1 THEN NodeCount(PartSizes(n)[i - 1])
              ELSE 0)

LeafBox(l) ==
    [pMin |-> << 2 * l, 0, 0 >>, pMax |-> << 2 * l + 1, 1, 1 >>]
RangeBox(lo, n) ==
    [pMin |-> << 2 * lo, 0, 0 >>, pMax |-> << 2 * (lo + n) - 1, 1, 1 >>]

\* the node at index base over the leaves lo .. lo + n - 1, children i.. set
RECURSIVE BuiltNode(_, _, _, _)
BuiltNode(lo, n, base, i) ==
    IF i >= Width THEN EmptyNode
    ELSE LET rest == BuiltNode(lo, n, base, i + 1)
             size == PartSizes(n)[i]
             start == lo + SizesBefore(n, i)
         IN  IF size = 0 THEN rest
             ELSE IF size = 1
               THEN SetBounds(SetLeaf(rest, i, start), i, LeafBox(start))
               ELSE SetBounds(SetInternal(rest, i, base + 1 + NodesBefore(n, i)),
                              i, RangeBox(start, size))

\* the nodes of the subtree over the leaves lo .. lo + n - 1, depth-first,
\* the first of them at index base
RECURSIVE BuiltNodes(_, _, _)
RECURSIVE BuiltChildren(_, _, _, _)
BuiltNodes(lo, n, base) ==
    << BuiltNode(lo, n, base, 0) >> \o BuiltChildren(lo, n, base, 0)
BuiltChildren(lo, n, base, i) ==
    IF i >= Width THEN << >>
    ELSE (IF PartSizes(n)[i] > 1
            THEN BuiltNodes(lo + SizesBefore(n, i), PartSizes(n)[i],
                            base + 1 + NodesBefore(n, i))
            ELSE << >>)
         \o BuiltChildren(lo, n, base, i + 1)

\* queries: around all the leaves, around the first half, around leaf 0,
\* and beside all of them
BuildQueries(n) ==
    { [pMin |-> << -1, -1, -1 >>, pMax |-> << 2 * n, 2, 2 >>],
      [pMin |-> << -1, -1, -1 >>, pMax |-> << n, 2, 2 >>],
      [pMin |-> << -1, -1, -1 >>, pMax |-> << 1, 2, 2 >>],
      [pMin |-> << -3, -1, -1 >>, pMax |-> << -2, 2, 2 >>] }

\* findOverlaps(aabb, fn) is entered on the node array of a build
BqInit ==
    /\ \E n \in 1..MaxBuildLeaves :
          /\ nodes_ = BuiltNodes(0, n, 0)
          /\ leaf_entities_ = [l \in 0..(n - 1) |-> l]
          /\ fo_aabb \in BuildQueries(n)
    /\ bvh_shape = << >>
    /\ bvh_present = 0
    /\ bvh_phase = "query"
    /\ fo_stack = << 0 >>
    /\ fo_node_idx = 0
    /\ fo_out = << >>

BqNext == FindOverlapsVisit

----------------------------------------------------------------------------
(* parseURDF from the parsed links and joints on: initTree and initRoot.    *)
(* model.links is the set of the names of the links kept (those with a       *)
(* visual), model.joints the joints in the order of their names, each with   *)
(* its parentLinkName and childLinkName; "" is the empty string.  The        *)
(* outcome is the model with its rootLinkName and parent_link_tree, or the   *)
(* failure of an assertion.                                                  *)

\* joints of a robot description
MaxJoints == 2

LinkNames == {"a", "b", "c"}

\* what a joint may name as parent or child: a link, nothing, or a link
\* that is not in the model
JointLinkNames == LinkNames \union {"", "x"}

URDFJoint(parentLinkName, childLinkName) ==
    [parentLinkName |-> parentLinkName, childLinkName |-> childLinkName]

\* the link as parseLink leaves it
URDFLink ==
    [parentLinkName |-> "", parentJoint |-> 0, childJoints |-> << >>,
     childLinkNames |-> << >>]

\* initTree(model, parent_link_tree) from joint j on; a joint is named by
\* its position
RECURSIVE InitTreeFrom(_, _, _, _)
InitTreeFrom(links, joints, parent_link_tree, j) ==
    IF j > Len(joints)
      THEN [asserted |-> FALSE, links |-> links,
            parent_link_tree |-> parent_link_tree]
      ELSE LET parent_link_name == joints[j].parentLinkName
               child_link_name == joints[j].childLinkName
           IN  IF \/ parent_link_name = "" \/ child_link_name = ""
                  \/ child_link_name \notin DOMAIN links
                  \/ parent_link_name \notin DOMAIN links
                 THEN [asserted |-> TRUE, links |-> links,
                       parent_link_tree |-> parent_link_tree]
                 ELSE LET with_child ==
                              [links EXCEPT
                                  ![child_link_name].parentLinkName =
                                      parent_link_name,
                                  ![child_link_name].parentJoint = j]
                          with_parent ==
                              [with_child EXCEPT
                                  ![parent_link_name].childJoints =
                                      Append(@, j),
                                  ![parent_link_name].childLinkNames =
                                      Append(@, child_link_name)]
                      IN  InitTreeFrom(with_parent, joints,
                              (child_link_name :> parent_link_name)
                                  @@ parent_link_tree,
                              j + 1)

InitTree(links, joints) == InitTreeFrom(links, joints, << >>, 1)

\* the links without an entry in parent_link_tree
ParentlessLinks(links, parent_link_tree) ==
    {l \in DOMAIN links : l \notin DOMAIN parent_link_tree}

\* initRoot(model, parent_link_tree): rootLinkName, or "" after an assertion
InitRoot(links, parent_link_tree) ==
    LET roots == ParentlessLinks(links, parent_link_tree)
    IN  IF Cardinality(roots) = 1
          THEN [asserted |-> FALSE, rootLinkName |-> CHOOSE l \in roots : TRUE]
          ELSE \* "Two root links found!" or "No root link found."
               [asserted |-> TRUE, rootLinkName |-> ""]

\* parseURDF once the links and the joints are read
ParseURDF(linkNames, joints) ==
    LET links == [l \in linkNames |-> URDFLink]
        failed == [asserted |-> TRUE, rootLinkName |-> "", links |-> links,
                   joints |-> joints, parent_link_tree |-> << >>]
    IN  IF linkNames = {} THEN failed  \* "Model has no links"
        ELSE LET tree == InitTree(links, joints)
                 root == InitRoot(tree.links, tree.parent_link_tree)
             IN  IF tree.asserted THEN failed
                 ELSE [asserted |-> root.asserted,
                       rootLinkName |-> root.rootLinkName,
                       links |-> tree.links, joints |-> joints,
                       parent_link_tree |-> tree.parent_link_tree]

JointLists ==
    UNION {[1..n -> {URDFJoint(p, c) : p, c \in JointLinkNames}] :
              n \in 0..MaxJoints}

UrInit ==
    /\ fc_kind = "urdf"
    /\ fc_a \in SUBSET LinkNames
    /\ fc_b \in JointLists
    /\ fc_garbage = 0
    /\ fc_out = << >>

UrParseURDF ==
    /\ fc_kind = "urdf"
    /\ fc_out = << >>
    /\ fc_out' = << ParseURDF(fc_a, fc_b) >>
    /\ UNCHANGED << fc_kind, fc_a, fc_b, fc_garbage >>
    /\ UNCHANGED notFcVars

UrNext == UrParseURDF

----------------------------------------------------------------------------
(* DeviceTracing::DeviceEventLogging called concurrently by thread 0 of      *)
(* several blocks.  A call is the fetch_add, the test of log_index, the      *)
(* store of resetIndex and the write of the record, each a step of its own.  *)
(* The log is scaled down to NUM_EVENT_LOG slots; calls are numbered in the  *)
(* order of their fetch_add, and a slot keeps the numbers of the calls that  *)
(* wrote it.                                                                 *)

\* #define NUM_EVENT_LOG, scaled down
NUM_EVENT_LOG == 3

\* blocks whose thread 0 logs
NumLoggers == 2

\* calls of DeviceEventLogging in a run
MaxEvents == 6

Loggers == 1..NumLoggers

EvIdle ==
    /\ cur_index_ = 0
    /\ device_logs_ = << >>
    /\ ev_pc = << >>
    /\ ev_log_index = << >>
    /\ ev_call = << >>
    /\ ev_writes = << >>

EvInit ==
    /\ cur_index_ = 0
    /\ device_logs_ = [s \in 0..(NUM_EVENT_LOG - 1) |-> << >>]
    /\ ev_pc = [t \in Loggers |-> "idle"]
    /\ ev_log_index = [t \in Loggers |-> 0]
    /\ ev_call = [t \in Loggers |-> 0]
    /\ ev_writes = << >>

EvStarted == Len(ev_writes) + Cardinality({t \in Loggers : ev_pc[t] # "idle"})

\* uint32_t log_index = cur_index_.fetch_add(1, std::memory_order_relaxed)
\* (the cursor is at most MaxEvents, far below 2^32)
EvFetchAdd(t) ==
    /\ ev_pc[t] = "idle"
    /\ EvStarted < MaxEvents
    /\ ev_log_index' = [ev_log_index EXCEPT ![t] = cur_index_]
    /\ cur_index_' = cur_index_ + 1
    /\ ev_call' = [ev_call EXCEPT ![t] = EvStarted + 1]
    /\ ev_pc' = [ev_pc EXCEPT ![t] = "check"]
    /\ UNCHANGED << device_logs_, ev_writes >>
    /\ UNCHANGED notEvVars

\* if (log_index >= NUM_EVENT_LOG) { log_index = 0; ...
EvCheck(t) ==
    /\ ev_pc[t] = "check"
    /\ IF ev_log_index[t] >= NUM_EVENT_LOG
         THEN /\ ev_log_index' = [ev_log_index EXCEPT ![t] = 0]
              /\ ev_pc' = [ev_pc EXCEPT ![t] = "reset"]
         ELSE /\ ev_pc' = [ev_pc EXCEPT ![t] = "write"]
              /\ UNCHANGED ev_log_index
    /\ UNCHANGED << cur_index_, device_logs_, ev_call, ev_writes >>
    /\ UNCHANGED notEvVars

\* ... resetIndex(); }: cur_index_.store(0, std::memory_order_release)
EvResetIndex(t) ==
    /\ ev_pc[t] = "reset"
    /\ cur_index_' = 0
    /\ ev_pc' = [ev_pc EXCEPT ![t] = "write"]
    /\ UNCHANGED << device_logs_, ev_log_index, ev_call, ev_writes >>
    /\ UNCHANGED notEvVars

\* device_logs_[log_index] = {event, ...}
EvWrite(t) ==
    /\ ev_pc[t] = "write"
    /\ device_logs_' = [device_logs_ EXCEPT ![ev_log_index[t]] =
                           Append(@, ev_call[t])]
    /\ ev_writes' = Append(ev_writes,
          [slot |-> ev_log_index[t], call |-> ev_call[t], thread |-> t])
    /\ ev_pc' = [ev_pc EXCEPT ![t] = "idle"]
    /\ UNCHANGED << cur_index_, ev_log_index, ev_call >>
    /\ UNCHANGED notEvVars

EvNext ==
    \/ \E t \in Loggers : EvFetchAdd(t)
    \/ \E t \in Loggers : EvCheck(t)
    \/ \E t \in Loggers : EvResetIndex(t)
    \/ \E t \in Loggers : EvWrite(t)

----------------------------------------------------------------------------
(* Specifications *)

SolverIdle == LeafIdle /\ ContactIdle /\ BvhIdle /\ NpIdle /\ SatIdle

LateIdle == FcIdle /\ TrIdle /\ TgIdle /\ ReIdle /\ EvIdle

InitLeaf == LeafInit /\ ContactIdle /\ BvhIdle /\ NpIdle /\ SatIdle /\ LateIdle
SpecLeaf == InitLeaf /\ [][LeafNext]_vars

InitContacts == ContactInit /\ LeafIdle /\ BvhIdle /\ NpIdle /\ SatIdle /\ LateIdle
SpecContacts == InitContacts /\ [][ContactNext]_vars

InitOverlaps == BvhInit /\ LeafIdle /\ ContactIdle /\ NpIdle /\ SatIdle /\ LateIdle
SpecOverlaps == InitOverlaps /\ [][BvhNext]_vars

InitNarrow == NpInit /\ NpSolverInit /\ LeafIdle /\ BvhIdle /\ SatIdle
              /\ LateIdle
SpecNarrow == InitNarrow /\ [][NpNext]_vars

InitSAT == SatInit /\ NpSolverInit /\ LeafIdle /\ BvhIdle /\ LateIdle
SpecSAT == InitSAT /\ [][SatNext]_vars

InitFace == FcInit /\ SolverIdle /\ TrIdle /\ TgIdle /\ ReIdle /\ EvIdle
SpecFace == InitFace /\ [][FcNext]_vars

InitReduce == RdInit /\ SolverIdle /\ TrIdle /\ TgIdle /\ ReIdle /\ EvIdle
SpecReduce == InitReduce /\ [][RdNext]_vars

InitEdges == EdInit /\ SolverIdle /\ TrIdle /\ TgIdle /\ ReIdle /\ EvIdle
SpecEdges == InitEdges /\ [][EdNext]_vars

InitTrace == TrInit /\ SolverIdle /\ FcIdle /\ TgIdle /\ ReIdle /\ EvIdle
SpecTrace == InitTrace /\ [][TrNext]_vars

InitTasks == TgInit /\ SolverIdle /\ FcIdle /\ TrIdle /\ ReIdle /\ EvIdle
SpecTasks == InitTasks /\ [][TgNext]_vars

\* every thread of the launch keeps running until it returns
InitRaycast == ReInit /\ SolverIdle /\ FcIdle /\ TrIdle /\ TgIdle /\ EvIdle
SpecRaycast == InitRaycast /\ [][ReNext]_vars /\ WF_vars(ReNext)

InitNode == NdInit /\ SolverIdle /\ TrIdle /\ TgIdle /\ ReIdle /\ EvIdle
SpecNode == InitNode /\ [][NdNext]_vars

InitBuilt == BqInit /\ LeafIdle /\ ContactIdle /\ NpIdle /\ SatIdle /\ LateIdle
SpecBuilt == InitBuilt /\ [][BqNext]_vars

InitURDF == UrInit /\ SolverIdle /\ TrIdle /\ TgIdle /\ ReIdle /\ EvIdle
SpecURDF == InitURDF /\ [][UrNext]_vars

InitEvents == EvInit /\ SolverIdle /\ FcIdle /\ TrIdle /\ TgIdle /\ ReIdle
SpecEvents == InitEvents /\ [][EvNext]_vars

----------------------------------------------------------------------------
(* Properties of BVH::reserveLeaf *)

ReturnedSet == {rl_returned[i] : i \in 1..Len(rl_returned)}

AllReserveCallsReturned == \A t \in Threads : rl_pc[t] = "idle"

\* C1: for any interleaving of k concurrent reserveLeaf calls on a BVH that
\* starts with n0 reserved leaves and has n0 + k <= num_allocated_leaves_,
\* once the k calls have returned the LeafIDs are pairwise distinct and are
\* exactly {n0, ..., n0+k-1}, and num_leaves_ = n0 + k; num_leaves_ never
\* decreases.
C1_ReserveLeafDistinctIds ==
    /\ [](( /\ AllReserveCallsReturned
            /\ rl_n0 + rl_started <= num_allocated_leaves_ )
          => /\ Len(rl_returned) = rl_started
             /\ Cardinality(ReturnedSet) = rl_started
             /\ ReturnedSet = rl_n0..(rl_n0 + rl_started - 1)
             /\ num_leaves_ = rl_n0 + rl_started)
    /\ [][num_leaves_' >= num_leaves_]_vars

\* three calls by two threads have returned, on a BVH that already held a
\* leaf, and two of them returned out of the order of their fetch_add
C1_Witness ==
    /\ AllReserveCallsReturned
    /\ rl_n0 >= 1
    /\ rl_started = 3
    /\ rl_n0 + rl_started <= num_allocated_leaves_
    /\ Len(rl_returned) = 3
    /\ rl_returned[1] > rl_returned[2]

\* indices fetched so far by calls that are still between fetch_add and assert
InFlightIdx == {rl_leaf_idx[t] : t \in {u \in Threads : rl_pc[u] = "check"}}

\* C2: reserveLeaf fails (assertion) exactly when the leaf count before the
\* call is >= num_allocated_leaves_: a call that read a count below the
\* capacity never fails, a call that read a count at or above it never
\* returns; when the first failure happens every LeafID of
\* [0, num_allocated_leaves_) has been handed out (num_allocated_leaves_
\* reservations were granted); no call returns a LeafID outside
\* [0, num_allocated_leaves_).
C2_ReserveLeafFailsAtCapacity ==
    /\ \A i \in 1..Len(rl_returned) :
          rl_returned[i] \in 0..(num_allocated_leaves_ - 1)
    /\ \A f \in rl_failed : f >= num_allocated_leaves_
    /\ rl_aborted =>
          /\ rl_failed # {}
          /\ 0..(num_allocated_leaves_ - 1) =
                (0..(rl_n0 - 1)) \cup ReturnedSet
                    \cup {x \in InFlightIdx : x < num_allocated_leaves_}
          /\ Cardinality(ReturnedSet) = Len(rl_returned)

\* a run in which reservations succeeded up to the capacity and the next
\* call died in its assertion
C2_Witness ==
    /\ rl_aborted
    /\ num_allocated_leaves_ >= 2
    /\ rl_n0 + Len(rl_returned) = num_allocated_leaves_
    /\ Len(rl_returned) >= 2

----------------------------------------------------------------------------
(* Properties of addContactsToSolver *)

Started == {c \in Calls : ac_pc[c] # "idle"}

\* the index range [idx, idx + size) a call obtained from fetch_add
Range(c) == {s \in 0..(ac_idx[c] + ac_size[c] - 1) : s >= ac_idx[c]}

AllAddCallsDone == \A c \in Calls : ac_pc[c] = "done"

\* C3: for any interleaving of concurrent addContactsToSolver calls within a
\* step, the ranges [idx, idx + size) of distinct calls are pairwise
\* disjoint, no slot of solver.contacts is written by two calls, every write
\* of a call lands in its own range, and once all calls have finished
\* numContacts is its initial value plus the number of contacts added.
C3_ContactRangesDisjoint ==
    /\ \A c1, c2 \in Started : c1 # c2 => Range(c1) \cap Range(c2) = {}
    /\ \A w1, w2 \in ac_writes : w1.slot = w2.slot => w1.call = w2.call
    /\ \A w \in ac_writes : w.slot \in Range(w.call)
    /\ AllAddCallsDone =>
          /\ numContacts = ac_init + SumSizes(ac_size, Calls)
          /\ Cardinality(ac_writes) = SumSizes(ac_size, Calls)

\* all calls have finished, each added at least one contact and one of them
\* two, and the ranges were handed out in another order than the call numbers
C3_Witness ==
    /\ AllAddCallsDone
    /\ \A c \in Calls : ac_size[c] >= 1
    /\ \E c \in Calls : ac_size[c] = 2
    /\ ac_idx[1] > ac_idx[2]
    /\ numContacts = ac_init + 3
    /\ Cardinality(ac_writes) = 3

\* C4: a call that would place a contact at an index >= maxContacts aborts
\* before writing, whatever the size of its span: no contact is ever written
\* to solver.contacts at an index >= maxContacts.
C4_NoWriteBeyondMaxContacts ==
    \A w \in ac_writes : w.slot < maxContacts

----------------------------------------------------------------------------
(* Properties of BVH::findOverlaps *)

Shape(n, c) == bvh_shape[n + 1][c]

\* the leaf slots reached from node n along present children whose stored
\* boxes overlap the query, the leaf's own box included
RECURSIVE ReachedLeafSlots(_)
ReachedLeafSlots(n) ==
    {<< n, c >> : c \in {d \in Slots : /\ Shape(n, d).kind = "leaf"
                                       /\ Overlaps(fo_aabb, Shape(n, d).box)}}
    \cup UNION {ReachedLeafSlots(Shape(n, c).ref) :
                  c \in {d \in Slots : /\ Shape(n, d).kind = "internal"
                                       /\ Overlaps(fo_aabb, Shape(n, d).box)}}

Reported == {<< fo_out[k].node, fo_out[k].slot >> : k \in 1..Len(fo_out)}

\* C5: findOverlaps invokes fn exactly once for each leaf child slot reached
\* from the root along present children whose stored boxes overlap the query
\* and whose own stored box overlaps it, with the entity of that leaf, and
\* for no other slot (no absent child, no leaf whose box misses the query);
\* an entity referenced from several such slots is reported once per slot.
C5_FindOverlapsReportsReachedLeaves ==
    bvh_phase \in {"query", "done"} =>
        /\ \A k \in 1..Len(fo_out) :
              /\ << fo_out[k].node, fo_out[k].slot >> \in ReachedLeafSlots(0)
              /\ fo_out[k].e =
                    LeafEntities[Shape(fo_out[k].node, fo_out[k].slot).ref]
        /\ Cardinality(Reported) = Len(fo_out)
        /\ bvh_phase = "done" => Reported = ReachedLeafSlots(0)

\* a finished traversal that reported the same entity from two slots, one of
\* them below the root, and passed over absent slots
C5_Witness ==
    /\ bvh_phase = "done"
    /\ Len(fo_out) = 2
    /\ fo_out[1].e = fo_out[2].e
    /\ \E k \in 1..2 : fo_out[k].node # 0
    /\ \E c \in Slots : Shape(0, c).kind = "absent"

\* every leaf slot in the subtree under child slot c of node n
RECURSIVE LeafSlotsBelow(_)
LeafSlotsBelow(n) ==
    {<< n, c >> : c \in {d \in Slots : Shape(n, d).kind = "leaf"}}
    \cup UNION {LeafSlotsBelow(Shape(n, c).ref) :
                  c \in {d \in Slots : Shape(n, d).kind = "internal"}}

Under(n, c) ==
    CASE Shape(n, c).kind = "leaf" -> {<< n, c >>}
      [] Shape(n, c).kind = "internal" -> LeafSlotsBelow(Shape(n, c).ref)
      [] OTHER -> {}

\* every report from a slot of A comes before every report from a slot of B
AllBefore(A, B) ==
    \A p, q \in 1..Len(fo_out) :
        ( /\ << fo_out[p].node, fo_out[p].slot >> \in A
          /\ << fo_out[q].node, fo_out[q].slot >> \in B ) => p < q

ServedBefore(n, i, j) ==
    \/ /\ Shape(n, i).kind = "leaf"
       /\ Shape(n, j).kind = "leaf"
       /\ i < j
    \/ /\ Shape(n, i).kind = "leaf"
       /\ Shape(n, j).kind = "internal"
    \/ /\ Shape(n, i).kind = "internal"
       /\ Shape(n, j).kind = "internal"
       /\ i > j

----------------------------------------------------------------------------
(* Properties of runNarrowphase *)

TypeOf(e) == ObjectTable[np_world[e].obj].type
RadiusOf(e) == ObjectTable[np_world[e].obj].radius
PosOf(e) == np_world[e].pos

\* the recomputed world AABB of an entity
WorldAABB(e) ==
    ApplyTRS(ObjectTable[np_world[e].obj].aabb, np_world[e].pos,
             np_world[e].rot, np_world[e].scale)

Runs == 1..Len(np_log)
PassedGate(k) == np_log[k].outcome # "early"

\* the handler cell named by an unordered pair of primitive types
CellOfPair(ta, tb) ==
    CASE {ta, tb} = {TypeSphere} -> SphereSphere
      [] {ta, tb} = {TypeSphere, TypeHull} -> SphereHull
      [] {ta, tb} = {TypeSphere, TypePlane} -> SpherePlane
      [] {ta, tb} = {TypeHull} -> HullHull
      [] {ta, tb} = {TypeHull, TypePlane} -> HullPlane
      [] {ta, tb} = {TypePlane} -> PlanePlane

\* C7: for every pair of primitive types, runNarrowphase (when the AABB gate
\* passes) swaps the two sides so that type(a) <= type(b) and runs the cell
\* named by the unordered pair; the OR of the two tags is a distinct
\* NarrowphaseTest value for each of the six unordered pairs, the default
\* branch is never taken, and the cell does not depend on the order of the
\* two entities in the candidate.
C7_DispatchByUnorderedTypePair ==
    /\ \A ta, tb, tc, td \in Types :
          BitOr(ta, tb) = BitOr(tc, td) => {ta, tb} = {tc, td}
    /\ \A ta, tb \in Types : BitOr(ta, tb) \in NarrowphaseTests
    /\ \A k \in Runs :
          /\ np_log[k].raw_type_a <= np_log[k].raw_type_b
          /\ np_log[k].raw_type_a = TypeOf(np_log[k].a)
          /\ np_log[k].raw_type_b = TypeOf(np_log[k].b)
          /\ {np_log[k].a, np_log[k].b} = {np_log[k].ca, np_log[k].cb}
          /\ PassedGate(k) =>
                /\ np_log[k].outcome # "unreachable"
                /\ np_log[k].test =
                      CellOfPair(TypeOf(np_log[k].ca), TypeOf(np_log[k].cb))
    /\ \A j, k \in Runs :
          ( /\ PassedGate(j) /\ PassedGate(k)
            /\ {np_log[j].ca, np_log[j].cb} = {np_log[k].ca, np_log[k].cb} )
          => np_log[j].test = np_log[k].test

\* the same sphere and plane were handed over in both orders and both calls
\* ran the Sphere-Plane cell with the sphere as a
C7_Witness ==
    /\ Len(np_log) = 2
    /\ np_log[1].ca = np_log[2].cb
    /\ np_log[1].cb = np_log[2].ca
    /\ np_log[1].test = SpherePlane
    /\ np_log[2].test = SpherePlane
    /\ np_log[1].a = np_log[2].a
    /\ TypeOf(np_log[1].ca) = TypePlane

BothPlanes(k) ==
    /\ TypeOf(np_log[k].ca) = TypePlane
    /\ TypeOf(np_log[k].cb) = TypePlane

\* C8 as stated: every candidate whose two primitives are both Plane makes
\* runNarrowphase fail fatally, whatever the positions, rotations and scales.
C8_PlanePlaneAlwaysFatal ==
    \A k \in Runs : BothPlanes(k) => np_log[k].outcome = "abort"

\* C8 as amended: a Plane-Plane candidate whose recomputed world AABBs
\* overlap makes runNarrowphase fail fatally; one whose world AABBs do not
\* overlap is skipped by the AABB gate, without an assertion and without a
\* contact.  No contact between two planes ever reaches the solver.
C8_PlanePlaneFatalBehindGate ==
    /\ \A k \in Runs : BothPlanes(k) =>
          IF Overlaps(WorldAABB(np_log[k].ca), WorldAABB(np_log[k].cb))
            THEN /\ np_log[k].outcome = "abort"
                 /\ np_aborted
                 /\ k = Len(np_log)
            ELSE /\ np_log[k].outcome = "early"
                 /\ np_log[k].added = << >>
    /\ \A i \in DOMAIN np_contacts :
          ~( /\ TypeOf(np_contacts[i].ref) = TypePlane
             /\ TypeOf(np_contacts[i].alt) = TypePlane )
    /\ (\A e \in Entities : TypeOf(e) = TypePlane) =>
          /\ numContacts = 0
          /\ np_contacts = << >>
          /\ np_events = << >>

\* two planes with overlapping world AABBs, one of them rotated, and the
\* call died in the Plane-Plane case
C8_Witness ==
    /\ Len(np_log) = 1
    /\ BothPlanes(1)
    /\ np_log[1].outcome = "abort"
    /\ np_world[1].rot # np_world[2].rot
    /\ np_aborted

\* equality of two fractions of numbers
FracEq(x, y) == x.n * y.d = y.n * x.d

\* equality of two fractions of vectors
VFracEq(x, y) == VScale(y.d, x.n) = VScale(x.d, y.n)

\* C9: for two spheres with radii rA, rB and centre distance d the
\* Sphere-Sphere handler emits exactly one contact when 0 < d < rA + rB and
\* none otherwise; the contact has normal (posB - posA)/d, its point is the
\* midpoint of the two centres and its penetration depth is (rA + rB - d)/2.
C9_SphereSphereContact ==
    \A k \in Runs : np_log[k].test = SphereSphere =>
        LET A == np_log[k].a
            B == np_log[k].b
            d == Length(VSub(PosOf(B), PosOf(A)))
            added == np_log[k].added
        IN  /\ Len(added) = IF 0 < d /\ d < RadiusOf(A) + RadiusOf(B)
                              THEN 1 ELSE 0
            /\ Len(added) = 1 =>
                  /\ added[1].numPoints = 1
                  /\ VFracEq(added[1].normal,
                             Frac(VSub(PosOf(B), PosOf(A)), d))
                  /\ VFracEq(added[1].point,
                             Frac(VAdd(PosOf(A), PosOf(B)), 2))
                  /\ FracEq(added[1].depth,
                            Frac(RadiusOf(A) + RadiusOf(B) - d, 2))

SphereOf(k) ==
    IF TypeOf(np_log[k].ca) = TypeSphere THEN np_log[k].ca ELSE np_log[k].cb
PlaneOf(k) ==
    IF TypeOf(np_log[k].ca) = TypePlane THEN np_log[k].ca ELSE np_log[k].cb

\* C10: for a sphere of radius r and a plane with normal n = rot.(0,0,1) and
\* offset d = n.posPlane, with t = n.posSphere - d, the Sphere-Plane handler
\* emits exactly one contact when r - t > 0 and none when r - t <= 0; the
\* contact has point posSphere - t n, depth r - t and normal n.
C10_SpherePlaneContact ==
    \A k \in Runs : np_log[k].test = SpherePlane =>
        LET S == SphereOf(k)
            P == PlaneOf(k)
            n == RotateVec(np_world[P].rot, << 0, 0, 1 >>)
            d == Dot(n, PosOf(P))
            t == Dot(n, PosOf(S)) - d
            r == RadiusOf(S)
            added == np_log[k].added
        IN  /\ Len(added) = IF r - t > 0 THEN 1 ELSE 0
            /\ Len(added) = 1 =>
                  /\ added[1].numPoints = 1
                  /\ VFracEq(added[1].point,
                             Frac(VSub(PosOf(S), VScale(t, n)), 1))
                  /\ FracEq(added[1].depth, Frac(r - t, 1))
                  /\ VFracEq(added[1].normal, Frac(n, 1))
                  /\ \E i \in DOMAIN np_contacts : np_contacts[i] = added[1]

\* the plane through (5,0,0) with normal (1,0,0) came first in the candidate
\* and the sphere of radius 2 at (3,0,0) got one contact at (5,0,0) of depth
\* 4; an earlier call in the other order found the same
C10_Witness ==
    /\ Len(np_log) = 2
    /\ np_log[2].test = SpherePlane
    /\ TypeOf(np_log[2].ca) = TypePlane
    /\ np_log[1].ca = np_log[2].cb
    /\ Len(np_log[2].added) = 1
    /\ np_log[2].added[1].normal = Frac(<< 1, 0, 0 >>, 1)
    /\ np_log[2].added[1].point = Frac(<< 5, 0, 0 >>, 1)
    /\ np_log[2].added[1].depth = Frac(4, 1)
    /\ np_log[2].added[1] = np_log[1].added[1]

\* C24: when the recomputed world AABBs of the two entities of a candidate
\* do not overlap, the call of runNarrowphase returns before the dispatch on
\* the primitive types: numContacts and the contact buffer are unchanged and
\* no CollisionEvent temporary is made, whatever the two primitive types.
C24_NonOverlappingPairIsSkipped ==
    /\ \A k \in Runs :
          ~Overlaps(WorldAABB(np_log[k].ca), WorldAABB(np_log[k].cb)) =>
              /\ np_log[k].outcome = "early"
              /\ np_log[k].added = << >>
    \* only the calls that passed the gate account for the state of the solver
    /\ numContacts =
          Cardinality({k \in Runs : /\ PassedGate(k)
                                    /\ \/ np_log[k].added # << >>
                                       \/ np_log[k].outcome = "overflow"})
    /\ DOMAIN np_contacts = 0..(numContacts - 1)
    /\ \A i \in DOMAIN np_contacts :
          \E k \in Runs : PassedGate(k) /\ np_log[k].added = << np_contacts[i] >>
    /\ Len(np_events) =
          Cardinality({k \in Runs : /\ PassedGate(k)
                                    /\ np_log[k].test = SphereSphere
                                    /\ np_log[k].added # << >>})
    /\ np_aborted <=>
          \E k \in Runs : /\ PassedGate(k)
                          /\ np_log[k].outcome \in
                                {"abort", "unreachable", "overflow"}

\* two planes whose world AABBs are apart were handed over and skipped; the
\* assertion of the Plane-Plane case did not fire and nothing was added
C24_Witness ==
    /\ Len(np_log) = 1
    /\ BothPlanes(1)
    /\ ~Overlaps(WorldAABB(np_log[1].ca), WorldAABB(np_log[1].cb))
    /\ np_log[1].outcome = "early"
    /\ numContacts = 0
    /\ np_contacts = << >>
    /\ np_events = << >>
    /\ ~np_aborted

InvolvesPlane(k) == np_log[k].test \in {SpherePlane, HullPlane}

\* C28: every contact emitted for a Sphere-Plane or a Hull-Plane pair has the
\* entity of the plane as ref and the other entity as alt, and its normal is
\* the world normal rot.(0,0,1) of the plane, whichever order the two
\* entities have in the candidate; a call of runNarrowphase hands at most one
\* contact to the solver.
C28_PlaneIsReferenceOfItsContacts ==
    /\ \A k \in Runs :
          /\ Len(np_log[k].added) <= 1
          /\ (InvolvesPlane(k) /\ Len(np_log[k].added) = 1) =>
                LET P == PlaneOf(k)
                    O == IF P = np_log[k].ca THEN np_log[k].cb
                         ELSE np_log[k].ca
                    c == np_log[k].added[1]
                IN  /\ TypeOf(P) = TypePlane
                    /\ TypeOf(O) # TypePlane
                    /\ c.ref = P
                    /\ c.alt = O
                    /\ VFracEq(c.normal,
                         Frac(RotateVec(np_world[P].rot, << 0, 0, 1 >>), 1))
                    /\ \E i \in DOMAIN np_contacts : np_contacts[i] = c
    /\ numContacts <= Len(np_log)
    /\ \A i \in DOMAIN np_contacts :
          (TypePlane \in {TypeOf(np_contacts[i].ref),
                          TypeOf(np_contacts[i].alt)})
          => TypeOf(np_contacts[i].ref) = TypePlane

\* a hull and a tilted plane were handed over hull first and then plane
\* first; both calls gave a contact of four points with the plane as ref and
\* the normal (1, 0, 0) of the plane
C28_Witness ==
    /\ Len(np_log) = 2
    /\ np_log[1].test = HullPlane
    /\ np_log[2].test = HullPlane
    /\ TypeOf(np_log[1].ca) = TypeHull
    /\ TypeOf(np_log[2].ca) = TypePlane
    /\ Len(np_log[1].added) = 1
    /\ Len(np_log[2].added) = 1
    /\ np_log[1].added[1].numPoints = 4
    /\ np_log[1].added[1].ref = np_log[2].ca
    /\ np_log[2].added[1].ref = np_log[2].ca
    /\ np_log[2].added[1].normal = Frac(<< 1, 0, 0 >>, 1)
    /\ numContacts = 2

----------------------------------------------------------------------------
(* Properties of doSAT *)

SatReturned == sat_pc \in {"return", "done"}
Evaluated(q) == q # NotEvaluated
Positive(q) == Evaluated(q) /\ q[1] > 0
NotPositive(q) == Evaluated(q) /\ q[1] <= 0

\* C11: doSAT returns a manifold with numContactPoints = 0 whenever the face
\* query of A against B, the face query of B against A or the edge query has
\* separation > 0, the later queries are not evaluated after the first
\* positive one, and runNarrowphase then adds nothing to the solver; when
\* all three separations are <= 0 (touching included) doSAT builds a face or
\* an edge contact.
C11_SeparatingAxisGivesNoContact ==
    /\ Positive(sat_faceQueryA) =>
          /\ ~Evaluated(sat_faceQueryB)
          /\ ~Evaluated(sat_edgeQuery)
          /\ SatReturned
    /\ Positive(sat_faceQueryB) =>
          /\ ~Evaluated(sat_edgeQuery)
          /\ SatReturned
    /\ Positive(sat_edgeQuery) => SatReturned
    /\ Evaluated(sat_faceQueryB) =>
          NotPositive(sat_faceQueryA)
    /\ Evaluated(sat_edgeQuery) =>
          NotPositive(sat_faceQueryB)
    /\ SatReturned =>
          IF \/ Positive(sat_faceQueryA)
             \/ Positive(sat_faceQueryB)
             \/ Positive(sat_edgeQuery)
            THEN /\ sat_manifold.numContactPoints = 0
                 /\ sat_manifold.kind = "none"
                 /\ numContacts = 0
                 /\ np_contacts = << >>
            ELSE /\ NotPositive(sat_faceQueryA)
                 /\ NotPositive(sat_faceQueryB)
                 /\ NotPositive(sat_edgeQuery)
                 /\ sat_manifold.kind \in {"face", "edge"}

\* the hulls touch along A's best face, B's face query is positive: the
\* edges were never looked at and the solver got nothing
C11_Witness ==
    /\ sat_pc = "done"
    /\ sat_faceQueryA = << 0 >>
    /\ sat_faceQueryB = << 1 >>
    /\ sat_edgeQuery = NotEvaluated
    /\ sat_manifold.numContactPoints = 0
    /\ numContacts = 0

\* C12: when no separating axis exists, doSAT produces a face contact if and
\* only if faceQueryA.separation or faceQueryB.separation is strictly
\* greater than the best edge separation, and otherwise (ties included) an
\* edge contact with exactly one contact point and aIsReference = true.
C12_FaceContactIffFaceBeatsEdge ==
    (SatReturned /\ sat_manifold.kind # "none") =>
        /\ NotPositive(sat_faceQueryA)
        /\ NotPositive(sat_faceQueryB)
        /\ NotPositive(sat_edgeQuery)
        /\ sat_manifold.kind = "face" <=>
              \/ sat_faceQueryA[1] > sat_edgeQuery[1]
              \/ sat_faceQueryB[1] > sat_edgeQuery[1]
        /\ sat_manifold.kind = "edge" <=>
              /\ sat_faceQueryA[1] <= sat_edgeQuery[1]
              /\ sat_faceQueryB[1] <= sat_edgeQuery[1]
        /\ sat_manifold.kind = "edge" =>
              /\ sat_manifold.numContactPoints = 1
              /\ sat_manifold.aIsReference
              /\ sat_pc = "done" =>
                    /\ numContacts = 1
                    /\ np_contacts[0].numPoints = 1
                    /\ np_contacts[0].ref = 1

\* one face ties with the edge separation, the other is below it: an edge
\* contact went to the solver
C12_Witness ==
    /\ sat_pc = "done"
    /\ sat_faceQueryA = << -1 >>
    /\ sat_edgeQuery = << -1 >>
    /\ sat_faceQueryB = << -2 >>
    /\ sat_manifold.kind = "edge"
    /\ numContacts = 1

----------------------------------------------------------------------------
(* Properties of the manifolds of doSAT and doSATPlane *)

FcCalls == 1..Len(fc_out)

\* C13: every Manifold returned by doSAT or doSATPlane, for any pair of
\* hulls or any hull and plane, has 0 <= numContactPoints <= 4 and
\* penetrationDepths[i] >= 0 for every i < numContactPoints.
C13_ManifoldCountAndDepths ==
    \A k \in FcCalls :
        /\ fc_out[k].manifold.numContactPoints \in 0..4
        /\ \A i \in 1..fc_out[k].manifold.numContactPoints :
              fc_out[k].manifold.penetrationDepths[i] >= 0

\* the contact points of a manifold
PointsOf(out) ==
    {out.manifold.contactPoints[i] : i \in 1..out.manifold.numContactPoints}

\* C14: whenever doSAT(A, B) returns a non-empty manifold, doSAT(B, A)
\* returns a manifold with the same number of contact points, the same
\* contact points, a normal equal up to sign and the opposite value of
\* aIsReference.
C14_SwappedCallGivesSameContact ==
    (Len(fc_out) = 2 /\ fc_out[1].manifold.numContactPoints > 0) =>
        /\ fc_out[2].manifold.numContactPoints =
              fc_out[1].manifold.numContactPoints
        /\ PointsOf(fc_out[2]) = PointsOf(fc_out[1])
        /\ fc_out[2].manifold.normal \in
              {fc_out[1].manifold.normal, Negate(fc_out[1].manifold.normal)}
        /\ fc_out[2].manifold.aIsReference = ~fc_out[1].manifold.aIsReference

\* C20: in both face-contact generators every contact point handed to
\* buildFaceContactManifold is a clipped or incident vertex strictly behind
\* the reference plane (d < 0), projected onto the plane, with penetration
\* depth -d; vertices with d >= 0 are dropped, so the contact count is the
\* number of vertices behind the plane and no slot is left unwritten.
C20_OnlyVerticesBehindThePlane ==
    \A k \in FcCalls : fc_out[k].kind = "face" =>
        LET out == fc_out[k]
            behind == {i \in 1..Len(out.clipped) : out.distances[i] < 0}
            unit == out.pointDen
        IN  /\ Len(out.contacts) = Cardinality(behind)
            /\ Len(out.penetration_depths) = Cardinality(behind)
            /\ \A i \in 1..Len(out.contacts) :
                  \E j \in behind :
                     /\ out.contacts[i] =
                           VSub(VScale(unit, out.clipped[j]),
                                VScale(out.distances[j] * (unit \div
                                   (out.depthDen * out.depthDen)),
                                   out.ref_plane.normal))
                     /\ out.penetration_depths[i] = -out.distances[j]

----------------------------------------------------------------------------
(* Properties of traceRayTLAS *)

\* C15: for any QBVH node array and any ray, the traversal stack of
\* traceRayTLAS never holds more than its capacity of 32 entries and is never
\* popped when empty: 0 <= stack_size <= 32 at every step of the traversal.
C15_StackWithinCapacity ==
    tr_pc # "idle" =>
        /\ 0 <= tr_stack_size
        /\ tr_stack_size <= StackCapacity

TrRoot == tr_world.nodes[0]

\* the slab test fails for every child box of the root node
RootMissed ==
    \A i \in 1..TrRoot.numChildren :
        TNear(TrRoot, i, tr_ray) > TFar(TrRoot, i, tr_ray, tr_ray.tMax)

\* C16: a ray that misses the root AABB (the slab test tNear <= tFar fails
\* for every child box of the root node) makes traceRayTLAS return
\* hit = false: no instance BLAS is traversed, no child is pushed, and the
\* traversal ends after visiting the root only.
C16_MissedRootGivesNoHit ==
    (tr_pc # "idle" /\ RootMissed) =>
        /\ ~tr_hit
        /\ tr_leaves = << >>
        /\ tr_pushes = << >>
        /\ \A k \in DOMAIN tr_reads : tr_reads[k] = 0
        /\ Len(tr_reads) <= 1
        /\ tr_pc \in {"loop", "children", "done"}
        /\ tr_pc = "done" => tr_reads = << 0 >>

C16_Witness ==
    /\ tr_pc = "done"
    /\ RootMissed
    /\ TrRoot.numChildren = 3
    /\ tr_reads = << 0 >>
    /\ ~tr_hit

----------------------------------------------------------------------------
(* Properties of narrowphase::setupTasks *)

TgNarrowphase == tg_handle[1] - 1

TgReset == tg_handle[1]

\* C18: in the task graph built by setupTasks the parallel-for node over the
\* candidate collisions depends on all the given deps, the reset node of the
\* scratch allocator depends on that parallel-for node, and the returned
\* handle is the reset node; in every execution that respects the declared
\* dependencies no runNarrowphase invocation starts before the deps have
\* finished, and the reset happens only after every runNarrowphase invocation
\* of the step has finished.
C18_NarrowphaseAfterDepsResetLast ==
    tg_pc = "run" =>
        /\ tg_graph[TgReset].kind = "ResetTmpAlloc"
        /\ tg_graph[TgNarrowphase].kind = "runNarrowphase"
        /\ tg_deps \subseteq tg_graph[TgNarrowphase].dependencies
        /\ TgNarrowphase \in tg_graph[TgReset].dependencies
        /\ \A c \in DOMAIN tg_inv :
              tg_inv[c] # "pending" =>
                  \A d \in tg_deps : tg_state[d] = "finished"
        /\ tg_state[TgReset] # "waiting" =>
              \A c \in DOMAIN tg_inv : tg_inv[c] = "done"

\* both broad-phase nodes were given as deps, and the reset has run after the
\* two invocations of the step
C18_Witness ==
    /\ tg_pc = "run"
    /\ tg_deps = {1, 2}
    /\ tg_rows = 2
    /\ tg_state[TgReset] = "finished"
    /\ \A c \in DOMAIN tg_inv : tg_inv[c] = "done"

----------------------------------------------------------------------------
(* Properties of bvhRaycastEntry *)

\* the views b, b + G, b + 2G, ... below V
ViewsOfBlock(b) == {v \in 0..(re_numViews - 1) : v % re_gridDim = b}

TracedViews(t) == {re_traced[t][k].view : k \in DOMAIN re_traced[t]}

\* the passes of the loop, of any thread, that traced pixel_x in view v
TracesOf(v, pixel_x) ==
    {<< t, k >> \in ReThreads \X (1..(MaxViews + 1)) :
        /\ t[2] = pixel_x
        /\ k \in DOMAIN re_traced[t]
        /\ re_traced[t][k].view = v}

ReAllDone ==
    /\ re_gridDim >= 1
    /\ \A t \in ReThreads : re_pc[t] = "done"

C19_StridedViews ==
    \A t \in ReThreads :
        /\ \A k \in DOMAIN re_traced[t] :
              /\ re_traced[t][k].view = t[1] + (k - 1) * re_gridDim
              /\ re_traced[t][k].view < re_numViews
        /\ re_pc[t] = "done" => TracedViews(t) = ViewsOfBlock(t[1])

C19_OneBlockPerView ==
    \A v \in 0..(re_numViews - 1) :
        /\ \A t \in ReThreads : v \in TracedViews(t) => t[1] = v % re_gridDim
        /\ ReAllDone =>
              \A pixel_x \in 0..(PixelsPerBlock - 1) :
                  Cardinality(TracesOf(v, pixel_x)) = 1

C19_OneWritePerPixel ==
    \A v \in 0..(re_numViews - 1), pixel_x \in 0..(PixelsPerBlock - 1) :
        LET off == v * BytesPerView + 4 * (pixel_x * RenderOutputResolution)
            traces == TracesOf(v, pixel_x)
        IN  /\ Cardinality(traces) <= 1
            /\ Len(re_depthOutput[off]) = Cardinality(traces)
            /\ Len(re_rgbOutput[off]) =
                  IF re_raycastRGBD THEN Cardinality(traces) ELSE 0
            /\ \A tk \in traces :
                  LET result == re_traced[tk[1]][tk[2]].result
                  IN  /\ re_depthOutput[off][1] =
                            IF result.hit THEN result.depth ELSE 0
                      /\ re_raycastRGBD =>
                            re_rgbOutput[off][1] =
                                IF result.hit
                                THEN << result.color[1] * 255,
                                        result.color[2] * 255,
                                        result.color[3] * 255, 255 >>
                                ELSE << 0, 0, 0, 255 >>

\* C19: with G = gridDim.x >= 1 resident blocks and V = numViews, the block
\* with blockIdx.x = b processes exactly the views b, b+G, b+2G, ... below V,
\* in increasing order, and its loop terminates; every view in [0, V) is
\* processed by exactly one blockIdx.x; each processed (view, pixel) gets
\* exactly one depth write (0 on a miss) plus one RGBA write only in RGBD
\* mode (black on a miss).
C19_ViewsStridedWrittenOnce ==
    /\ [](re_gridDim >= 1 =>
            C19_StridedViews /\ C19_OneBlockPerView /\ C19_OneWritePerPixel)
    /\ <>ReAllDone

\* two blocks have gone through three views in RGBD mode, with a miss in
\* view 0 and a hit in view 2, both traced by block 0
C19_Witness ==
    /\ ReAllDone
    /\ re_gridDim = 2
    /\ re_numViews = 3
    /\ re_raycastRGBD
    /\ Len(re_traced[<< 0, 0 >>]) = 2
    /\ ~re_traced[<< 0, 0 >>][1].result.hit
    /\ re_traced[<< 0, 0 >>][2].result.hit
    /\ re_traced[<< 0, 0 >>][2].view = 2
    /\ re_depthOutput[0] = << 0 >>
    /\ re_rgbOutput[0] = << << 0, 0, 0, 255 >> >>

----------------------------------------------------------------------------
(* Properties of buildFaceContactManifold *)

RdContacts == {fc_a[i] : i \in 1..Len(fc_a)}

\* normal . ((p1 - p0) x (p - p0))
SignedArea(normal, p0, p1, p) ==
    Dot(normal, Cross(VSub(p1, p0), VSub(p, p0)))

\* C21: when more than 4 contacts are passed to buildFaceContactManifold,
\* the 4 points kept are the first input point p0, the input point farthest
\* from p0, the input point maximizing the signed triangle area with those
\* two and the input point minimizing it; the four kept points are four
\* distinct input contacts, each stored with the penetration depth of that
\* same input contact.
C21_ReductionKeepsExtremePoints ==
    (fc_kind = "contacts" /\ Len(fc_out) = 1) =>
        LET m == fc_out[1].manifold
            kept == m.contactPoints
            p0 == fc_a[1]
        IN  /\ m.numContactPoints = 4
            /\ kept[1] = p0
            /\ \A i \in 1..4 : kept[i] \in RdContacts
            /\ \A q \in RdContacts :
                  /\ Dot(VSub(q, p0), VSub(q, p0))
                        <= Dot(VSub(kept[2], p0), VSub(kept[2], p0))
                  /\ SignedArea(fc_b, p0, kept[2], q)
                        <= SignedArea(fc_b, p0, kept[2], kept[3])
                  /\ SignedArea(fc_b, p0, kept[2], q)
                        >= SignedArea(fc_b, p0, kept[2], kept[4])
            /\ \A i, j \in 1..4 : i # j => kept[i] # kept[j]
            /\ \A i \in 1..4 : m.penetrationDepths[i] = DepthOfCorner(kept[i])

----------------------------------------------------------------------------
(* Properties of queryEdgeDirections inside doSAT *)

\* C22: when no pair of edges forms a Minkowski face, queryEdgeDirections
\* returns separation -FLT_MAX and doSAT treats this as "no edge axis": it
\* never builds an edge contact from that result (createEdgeContact is what
\* reads the normal and the edge indices of the EdgeQuery), for any hulls,
\* those whose face queries return -FLT_MAX as well included.
C22_NoEdgeAxisGivesNoEdgeContact ==
    (sat_pc \in {"return", "done"} /\ sat_edgeQuery = << NegFltMax >>) =>
        sat_manifold.kind # "edge"

----------------------------------------------------------------------------
(* Properties of edgeDistance *)

EdDirection(h) == VSub(h.vertices[2], h.vertices[1])

\* C23: for every pair of edges whose directions are parallel (cross product
\* zero), whatever the lengths of the two edges, edgeDistance returns the
\* sentinel separation -FLT_MAX and never normalizes a zero cross product.
C23_ParallelEdgesGiveSentinel ==
    (fc_kind = "edges" /\ Len(fc_out) = 1
        /\ Cross(EdDirection(fc_a), EdDirection(fc_b)) = << 0, 0, 0 >>) =>
        /\ ~fc_out[1].nan
        /\ fc_out[1].separation = NegFltMax

----------------------------------------------------------------------------
(* Properties of the child words of BVH::Node *)

NdOps == 1..Len(fc_out)

\* the node as operation j left it
NdAfter(j) == IF j < Len(fc_out) THEN fc_out[j + 1].before ELSE fc_a

\* what the three operations promise for the indices up to maxIdx
NdChildStates(maxIdx) ==
    fc_kind = "node" =>
      \A j \in NdOps :
        LET c == fc_out[j].child
            idx == fc_out[j].idx
            node == NdAfter(j)
        IN  /\ \A d \in Slots \ {c} :
                  node.children[d] = fc_out[j].before.children[d]
            /\ (fc_out[j].op = "setLeaf" /\ 0 <= idx /\ idx <= maxIdx) =>
                  /\ HasChild(node, c)
                  /\ IsLeaf(node, c)
                  /\ LeafIDX(node, c) = idx
            /\ (fc_out[j].op = "setInternal" /\ 0 <= idx) =>
                  /\ HasChild(node, c)
                  /\ ~IsLeaf(node, c)
            /\ fc_out[j].op = "clearChild" => ~HasChild(node, c)

\* C26 as stated: for every child slot c and every index 0 <= idx < 2^31,
\* after setLeaf(c, idx) hasChild(c) and isLeaf(c) hold and leafIDX(c) = idx;
\* after setInternal(c, k), 0 <= k < 2^31, hasChild(c) holds and isLeaf(c)
\* does not; after clearChild(c) hasChild(c) does not hold; each operation
\* changes slot c only.
C26_ChildStatesUpTo2Pow31 == NdChildStates(MaxInt32)

\* C26 as amended: the same for the leaf indices 0 <= idx < 2^31 - 1 (every
\* index reserveLeaf can return, which is below an int32_t capacity) and the
\* internal indices 0 <= k < 2^31: the three states leaf, internal and
\* absent are told apart by hasChild and isLeaf, and each operation changes
\* slot c only.  setLeaf(c, 2^31 - 1) stores the sentinel 0xFFFFFFFF.
C26_ChildStatesBelowSentinel ==
    /\ NdChildStates(MaxInt32 - 1)
    /\ fc_kind = "node" =>
          \A j \in NdOps :
              (fc_out[j].op = "setLeaf" /\ fc_out[j].idx = MaxInt32) =>
                  ~HasChild(NdAfter(j), fc_out[j].child)

\* slot 1 was made the leaf 2^31 - 2, slot 2 the internal node 2^31 - 1 and
\* slot 1 was cleared again: slot 2 is internal, slots 0, 1 and 3 are absent
C26_Witness ==
    /\ fc_kind = "node"
    /\ Len(fc_out) = 3
    /\ fc_out[1].op = "setLeaf" /\ fc_out[1].child = 1
    /\ fc_out[1].idx = MaxInt32 - 1
    /\ LeafIDX(fc_out[2].before, 1) = MaxInt32 - 1
    /\ IsLeaf(fc_out[2].before, 1)
    /\ fc_out[2].op = "setInternal" /\ fc_out[2].child = 2
    /\ fc_out[2].idx = MaxInt32
    /\ fc_out[3].op = "clearChild" /\ fc_out[3].child = 1
    /\ HasChild(fc_a, 2) /\ ~IsLeaf(fc_a, 2)
    /\ \A d \in {0, 1, 3} : ~HasChild(fc_a, d)

----------------------------------------------------------------------------
(* Properties of BVH::findOverlaps on the node array of a build *)

\* levels of internal nodes of the tree a build makes over n leaves
RECURSIVE Levels(_)
Levels(n) == IF n <= Width THEN 1 ELSE 1 + Levels(PartSizes(n)[0])

BuiltLeaves == Cardinality(DOMAIN leaf_entities_)

\* the most entries the stack holds while a tree of the given number of
\* levels is traversed: a visit pops one entry and pushes at most four, and
\* the nodes of the last level push none
DeepestStack(levels) == 1 + (Width - 1) * (levels - 1)

----------------------------------------------------------------------------
(* Properties of trace_info.tMax in traceRayTLAS *)

\* the instances whose BLAS reported a hit, as positions of tr_leaves
TrHits == {k \in DOMAIN tr_leaves : tr_leaves[k].leaf_hit}

\* trace_info.tMax after the k-th BLAS trace
TMaxAfter(k) == IF k < Len(tr_leaves) THEN tr_leaves[k + 1].tMax ELSE tr_tMax

\* C27: while traceRayTLAS runs, trace_info.tMax never increases (every BLAS
\* hit reports a distance of at most the tMax it was given); when the result
\* is a hit, the depth returned is the least tHit / t_scale over all the
\* instance hits found, and the hit info recorded last, which is the one
\* returned, is that of an instance at that least distance, whatever the
\* order in which the children and the instances were visited.
C27_TMaxShrinksToClosestHit ==
    tr_pc # "idle" =>
        /\ tr_tMax <= tr_ray.tMax
        /\ TMaxAfter(0) <= tr_ray.tMax
        /\ \A k \in DOMAIN tr_leaves :
              /\ TMaxAfter(k) <= tr_leaves[k].tMax
              /\ tr_leaves[k].leaf_hit =>
                    tr_leaves[k].tHit[1] <= tr_leaves[k].tMax
        /\ tr_hit <=> TrHits # {}
        /\ tr_hit =>
              LET closest == MaxOf(TrHits)
                  depth == tr_tMax
              IN  /\ depth = MinOf({tr_leaves[k].tHit[1] : k \in TrHits})
                  /\ tr_leaves[closest].tHit[1] = depth

\* two instances were hit, the second nearer than the first, and the trace
\* returned the distance of the second
C27_Witness ==
    /\ tr_pc = "done"
    /\ tr_hit
    /\ \E j, k \in TrHits :
          /\ j < k
          /\ k = MaxOf(TrHits)
          /\ tr_leaves[j].instance_idx # tr_leaves[k].instance_idx
          /\ tr_leaves[k].tHit[1] < tr_leaves[j].tHit[1]
          /\ tr_leaves[j].tHit[1] < tr_ray.tMax
          /\ tr_tMax = tr_leaves[k].tHit[1]

----------------------------------------------------------------------------
(* Properties of parseURDF *)

\* the joints that have link l as their child
JointsInto(model, l) ==
    {j \in DOMAIN model.joints : model.joints[j].childLinkName = l}

\* the links reached from the links of S along the joints
RECURSIVE ReachedFrom(_, _)
ReachedFrom(model, S) ==
    LET T == S \union {model.joints[j].childLinkName :
                          j \in {k \in DOMAIN model.joints :
                                    model.joints[k].parentLinkName \in S}}
    IN  IF T = S THEN S ELSE ReachedFrom(model, T)

\* the link graph of the joints is a tree rooted at rootLinkName
IsTreeAtRoot(model) ==
    /\ model.rootLinkName \in DOMAIN model.links
    /\ {l \in DOMAIN model.links : JointsInto(model, l) = {}}
          = {model.rootLinkName}
    /\ \A l \in DOMAIN model.links \ {model.rootLinkName} :
          Cardinality(JointsInto(model, l)) = 1
    /\ ReachedFrom(model, {model.rootLinkName}) = DOMAIN model.links

\* C30: whenever parseURDF returns without a failed assertion, the link
\* graph of the joints is a tree rooted at model.rootLinkName (one link
\* without a parent, every other link the child of exactly one joint, every
\* link reachable from the root); a model with no parentless link or with
\* two of them is rejected.
C30_ReturnedModelIsTree ==
    (fc_kind = "urdf" /\ Len(fc_out) = 1) =>
        /\ ~fc_out[1].asserted => IsTreeAtRoot(fc_out[1])
        /\ (fc_a # {} /\ \A j \in DOMAIN fc_b :
                            /\ fc_b[j].parentLinkName \in fc_a
                            /\ fc_b[j].childLinkName \in fc_a) =>
              (Cardinality({l \in fc_a :
                               \A j \in DOMAIN fc_b :
                                   fc_b[j].childLinkName # l}) # 1
                  => fc_out[1].asserted)

----------------------------------------------------------------------------
(* Properties of DeviceTracing::DeviceEventLogging *)

\* C29: for any interleaving of concurrent calls of DeviceEventLogging,
\* every record is written at an index in [0, NUM_EVENT_LOG) and the log is
\* a ring: a record is overwritten by a later call only when at least
\* NUM_EVENT_LOG records were logged after it; so the record the wrapping
\* call writes at slot 0 is not overwritten by the next call, and two calls
\* that both saw an index >= NUM_EVENT_LOG do not write the same slot.
C29_LogIsRing ==
    /\ \A w \in DOMAIN ev_writes :
          0 <= ev_writes[w].slot /\ ev_writes[w].slot < NUM_EVENT_LOG
    /\ \A v, w \in DOMAIN ev_writes :
          (v < w /\ ev_writes[v].slot = ev_writes[w].slot) =>
              w - v >= NUM_EVENT_LOG
====
